---- MODULE Spec2Model ----
(***************************************************************************)
(* sitemap-scout: the sitemap discoverer (discover_sitemaps), the frontier *)
(* builder (build_crawl_frontier), the sitemap enumerator                  *)
(* (list_sitemap_urls) and the cursor utilities, as state machines.        *)
(*                                                                         *)
(* An async function is a frame on `stack`; a frame's pc names the await   *)
(* (or loop head) it resumes from.  One action per function: it runs the   *)
(* code from the frame's pc to the next call, await or return.  The        *)
(* upstream site is revealed lazily: `web` remembers what a URL served the *)
(* first time it answered, and every fetch may fail on its own.            *)
(***************************************************************************)
EXTENDS Integers, Sequences, FiniteSets, TLC

\* ------------------------------------------------------------------ bounds
MaxDocs == 2       \* sitemap documents the site serves
MaxEntries == 2    \* <url> entries in one leaf document
MaxDepth == 5      \* frames on the call stack before the model stops
MaxListEntries == 4 \* entries in the document a client pages through
MaxCalls == 6      \* calls of a client that follows the cursors
MaxOffset == 20    \* offsets 0..MaxOffset put into a cursor
MaxSessions == 2   \* transport/server pairs the HTTP transport creates
MaxChars == 3      \* characters in a URL or a pattern handed to matchesPattern

\* --------------------------------------------------------- program constants
DEFAULT_LIMIT == 1000
MAX_LIMIT == 10000
DEFAULT_MAX_URLS == 5000
\* list.ts: DEFAULT_LIMIT and MAX_LIMIT, the page size when none is asked
\* for and the largest one
LIST_DEFAULT_LIMIT == 100
LIST_MAX_LIMIT == 1000

VARIABLES
  op,         \* the tool the client called
  args,       \* its arguments
  stack,      \* call stack of the running call, innermost frame first
  ret,        \* value returned by the frame that returned last
  web,        \* what each sitemap URL served when it first answered
  dVisited,   \* discoverSitemaps: const visited = new Set<string>()
  cVisited,   \* buildCrawlFrontier: const visited = new Set<string>()
  pending,    \* the fetch the call is awaiting: <<>> or <<url>>
  fetchLog,   \* every fetch issued by the call, in order
  response,   \* the envelope returned to the client: <<>> or <<r>>
  \* a client paging through one sitemap document with list_sitemap_urls
  lsDoc,      \* the document the sitemap URL serves: <<>> or <<doc>>
  lsLimit,    \* the limit the client passes: {} or {n}
  lsArgs,     \* sitemap_url and cursor of the last call: <<>> or <<a>>
  lsResp,     \* the envelope of the last call: <<>> or <<r>>
  lsSeen,     \* the entries the client has received while following cursors
  lsCalls,    \* the calls the client has made while following cursors
  lsWalk,     \* the client has only followed next_cursor, every call succeeding
  \* one use of the cursor functions
  payload,    \* the data handed to encodeCursor: <<>> or <<data>>
  token,      \* the cursor string: <<>> or <<chars>>
  returned,   \* what decodeCursor returned: <<>> or <<value>>
  \* a second call running concurrently
  parked,     \* the call that is not running now, suspended or done: <<>> or <<c>>
  \* the HTTP transport
  sessions,   \* http.ts: const sessions = new Map(), its keys
  req,        \* the request handled last: <<>> or <<r>>
  res,        \* the response written to it: <<>> or <<r>>
  transports, \* every transport/server pair created so far, in order
  \* one use of matchesPattern
  mpArgs,     \* the url and the pattern: <<>> or <<a>>
  mpResult    \* what matchesPattern returned: <<>> or <<b>>

crawlVars == <<op, args, stack, ret, web, dVisited, cVisited, pending, fetchLog, response>>
listVars == <<lsDoc, lsLimit, lsArgs, lsResp, lsSeen, lsCalls, lsWalk>>
cursorVars == <<payload, token, returned>>
httpVars == <<sessions, req, res, transports>>
matchVars == <<mpArgs, mpResult>>
vars == <<crawlVars, listVars, cursorVars, parked, httpVars, matchVars>>

\* ------------------------------------------------------------------ helpers
Min(a, b) == IF a <= b THEN a ELSE b
Max(a, b) == IF a >= b THEN a ELSE b
SeqsUpTo(S, n) == UNION {[1..k -> S] : k \in 0..n}
Range(s) == {s[k] : k \in DOMAIN s}
\* a ?? b, an optional argument being {} (undefined) or {v}
Coalesce(a, b) == IF a = {} THEN b ELSE CHOOSE v \in a : TRUE

\* Array.prototype.slice(start, end)
JsSlice(s, start, end) ==
  LET n == Len(s)
      k == IF start < 0 THEN Max(n + start, 0) ELSE Min(start, n)
      f == IF end < 0 THEN Max(n + end, 0) ELSE Min(end, n)
  IN IF k >= f THEN <<>> ELSE SubSeq(s, k + 1, f)

\* --------------------------------------------------------------- the site
\* URLs are written without the origin https://example.com
standardSitemapUrl == "/sitemap.xml"
robotsTxtUrl == "/robots.txt"
alternativeLocations == <<"/sitemap_index.xml", "/sitemap.xml.gz", "/sitemaps/sitemap.xml">>
ExtraSitemaps == {"/a.xml", "/b.xml"}
SitemapUrls == {standardSitemapUrl} \cup Range(alternativeLocations) \cup ExtraSitemaps
\* page URLs and patterns are sequences of characters, the patterns reading them
Pages == {<<"a">>, <<"b">>}

\* the loc values an index may list: none, one child, siblings, a child twice
ChildLists ==
  {<<>>, <<"/a.xml">>, <<"/b.xml">>, <<"/a.xml", "/b.xml">>, <<"/b.xml", "/a.xml">>,
   <<"/a.xml", "/a.xml">>, <<"/b.xml", "/b.xml">>}
LeafBodies == SeqsUpTo(Pages, MaxEntries)
\* the Sitemap: lines a robots.txt may carry
RobotsLists ==
  {<<>>, <<"/a.xml">>, <<"/a.xml", "/a.xml">>, <<"/sitemap.xml", "/b.xml">>,
   <<"ftp://x/s.xml", "/a.xml">>, <<"/sitemap_index.xml">>}

\* A document: `index` says the text contains "<sitemapindex"; `items` are
\* the loc values of its <sitemap> (index) or <url> (urlset) elements, once
\* a parse has looked at them (`known`).
Tagged(b) == [index |-> b, known |-> FALSE, items |-> <<>>]
FullDocs(b) ==
  {[index |-> b, known |-> TRUE, items |-> s] : s \in IF b THEN ChildLists ELSE LeafBodies}
\* the URLs at which the site may serve a sitemap document
Hosted == {standardSitemapUrl, alternativeLocations[1]} \cup ExtraSitemaps
Served == Cardinality({u \in SitemapUrls : web[u] # <<>>})
CanServe(u) == u \in Hosted /\ Served < MaxDocs

\* what a successful GET of u can deliver to a reader of the tag only
TagDocs(u) ==
  IF web[u] # <<>> THEN {web[u][1]}
  ELSE IF CanServe(u) THEN {Tagged(TRUE), Tagged(FALSE)} ELSE {}

\* what a successful GET of u can deliver to a reader that parses the body
BodyDocs(u) ==
  IF web[u] # <<>>
  THEN IF web[u][1].known THEN {web[u][1]} ELSE FullDocs(web[u][1].index)
  ELSE IF CanServe(u) THEN FullDocs(TRUE) \cup FullDocs(FALSE) ELSE {}

\* fetchWithTimeout: throws (network error, abort on timeout), or a response;
\* a response that is not ok, or whose body cannot be read (gunzip or the XML
\* parser throws), fails the fetch of its caller as well
FetchFailures ==
  {[st |-> "throw"], [st |-> "abort"], [st |-> "notok"], [st |-> "malformed"]}
FetchOutcomes(docs) == FetchFailures \cup {[st |-> "ok", doc |-> d] : d \in docs}

\* ---------------------------------------------------------------- utils.ts
IsValidUrl(u) == u \in SitemapUrls \cup {"https://example.com"}

NormalizeUrl(u) ==
  CASE u = "example.com" -> <<"https://example.com">>
    [] u = "  example.com  " -> <<"https://example.com">>
    [] u = "https://example.com" -> <<"https://example.com">>
    [] OTHER -> <<>>

\* matchesPattern builds new RegExp("^" + regexPattern + "$", "i"), where
\* regexPattern is the pattern with . + ^ $ { } ( ) | [ ] \ escaped and each
\* * turned into .* ; a ? stays a regex quantifier.
EscapedChars == {".", "+", "^", "$", "{", "}", "(", ")", "|", "[", "]", "\\"}
LineTerminators == {"\n", "\r"}
LowerOf == "A" :> "a" @@ "B" :> "b"
\* the i flag: letters compare by their canonical case
Fold(c) == IF c \in DOMAIN LowerOf THEN LowerOf[c] ELSE c

\* The atoms of the regex, left to right; q counts the ? that follow an atom
\* (x? optional, x?? lazily optional).  InvalidRegex when the RegExp
\* constructor throws "Nothing to repeat": a ? with no atom before it, or a
\* third quantifier on one atom (* followed by ??, x followed by ???).
InvalidRegex == <<[any |-> FALSE, c |-> "", q |-> -1]>>
RECURSIVE RegexAtoms(_, _, _)
RegexAtoms(pattern, k, atoms) ==
  IF k > Len(pattern) THEN atoms
  ELSE LET c == pattern[k]
           n == Len(atoms)
       IN IF c = "*" THEN RegexAtoms(pattern, k + 1, Append(atoms, [any |-> TRUE, c |-> c, q |-> 1]))
          ELSE IF c = "?"
          THEN IF n = 0 \/ atoms[n].q >= 2 THEN InvalidRegex
               ELSE RegexAtoms(pattern, k + 1, [atoms EXCEPT ![n].q = @ + 1])
          ELSE RegexAtoms(pattern, k + 1, Append(atoms, [any |-> FALSE, c |-> c, q |-> 0]))

\* regex.test(url), the regex anchored at both ends
RECURSIVE RegexTest(_, _, _, _)
RegexTest(atoms, a, url, j) ==
  IF a > Len(atoms) THEN j > Len(url)
  ELSE LET t == atoms[a] IN
       IF t.any
       THEN \/ RegexTest(atoms, a + 1, url, j)
            \/ /\ j <= Len(url)
               /\ url[j] \notin LineTerminators
               /\ RegexTest(atoms, a, url, j + 1)
       ELSE \/ t.q >= 1 /\ RegexTest(atoms, a + 1, url, j)
            \/ /\ j <= Len(url)
               /\ Fold(url[j]) = Fold(t.c)
               /\ RegexTest(atoms, a + 1, url, j + 1)

\* String.prototype.includes
Includes(s, sub) ==
  \E k \in 0..(Len(s) - Len(sub)) : SubSeq(s, k + 1, k + Len(sub)) = sub
NotStar(c) == c # "*"

matchesPattern(url, pattern) ==
  LET atoms == RegexAtoms(pattern, 1, <<>>)
  IN IF atoms = InvalidRegex
     THEN Includes(url, SelectSeq(pattern, NotStar))
     ELSE RegexTest(atoms, 1, url, 1)

\* ------------------------------------------- JavaScript values and strings
\* A string is a sequence of characters; a value carries its type.  A number
\* is num/den with den a power of ten, kept in lowest such terms.
Undefined == [t |-> "undefined"]
Null == [t |-> "null"]
NaN == [t |-> "NaN"]
Bool(b) == [t |-> "boolean", b |-> b]
Str(chars) == [t |-> "string", chars |-> chars]
Arr(items) == [t |-> "array", items |-> items]
\* props: the own properties in insertion order, each [k |-> key, v |-> value]
Obj(props) == [t |-> "object", props |-> props]
RECURSIVE Num(_, _)
Num(num, den) ==
  IF den > 1 /\ num % 10 = 0 THEN Num(num \div 10, den \div 10)
  ELSE [t |-> "number", num |-> num, den |-> den]
Integer(n) == Num(n, 1)

\* printable ASCII, code 32 first ("GRAVE" is code 96); "U+FFFD" stands for
\* a character outside ASCII and "CTRL" for a control character other than
\* tab, LF and CR
Ascii ==
  <<" ", "!", "\"", "#", "$", "%", "&", "'", "(", ")", "*", "+", ",", "-", ".", "/",
    "0", "1", "2", "3", "4", "5", "6", "7", "8", "9", ":", ";", "<", "=", ">", "?",
    "@", "A", "B", "C", "D", "E", "F", "G", "H", "I", "J", "K", "L", "M", "N", "O",
    "P", "Q", "R", "S", "T", "U", "V", "W", "X", "Y", "Z", "[", "\\", "]", "^", "_",
    "GRAVE", "a", "b", "c", "d", "e", "f", "g", "h", "i", "j", "k", "l", "m", "n", "o",
    "p", "q", "r", "s", "t", "u", "v", "w", "x", "y", "z", "{", "|", "}", "~">>
CodeOf == [c \in Range(Ascii) |-> 31 + CHOOSE i \in DOMAIN Ascii : Ascii[i] = c]
Digits == {Ascii[i] : i \in 17..26}
HexDigits == Digits \cup {Ascii[i] : i \in 34..39} \cup {Ascii[i] : i \in 66..71}
DigitValue(c) == CodeOf[c] - 48
Whitespace == {" ", "\t", "\n", "\r"}

\* Buffer.from(string): the UTF-8 bytes
Utf8Char(c) ==
  CASE c \in DOMAIN CodeOf -> <<CodeOf[c]>>
    [] c = "\t" -> <<9>>
    [] c = "\n" -> <<10>>
    [] c = "\r" -> <<13>>
    [] c = "DEL" -> <<127>>
    [] c = "CTRL" -> <<1>>
    [] OTHER -> <<239, 191, 189>>
RECURSIVE Utf8Bytes(_)
Utf8Bytes(chars) ==
  IF chars = <<>> THEN <<>> ELSE Utf8Char(Head(chars)) \o Utf8Bytes(Tail(chars))

\* buffer.toString("utf-8"); bytes that are not ASCII become U+FFFD, one
\* for each byte
Utf8Decode(b) ==
  CASE b \in 32..126 -> Ascii[b - 31]
    [] b = 9 -> "\t"
    [] b = 10 -> "\n"
    [] b = 13 -> "\r"
    [] b = 127 -> "DEL"
    [] b < 32 -> "CTRL"
    [] OTHER -> "U+FFFD"
Utf8String(bytes) == [k \in DOMAIN bytes |-> Utf8Decode(bytes[k])]

\* the base64url alphabet
B64 ==
  <<"A", "B", "C", "D", "E", "F", "G", "H", "I", "J", "K", "L", "M", "N", "O", "P",
    "Q", "R", "S", "T", "U", "V", "W", "X", "Y", "Z", "a", "b", "c", "d", "e", "f",
    "g", "h", "i", "j", "k", "l", "m", "n", "o", "p", "q", "r", "s", "t", "u", "v",
    "w", "x", "y", "z", "0", "1", "2", "3", "4", "5", "6", "7", "8", "9", "-", "_">>

\* buffer.toString("base64url"): three bytes give four characters, no padding
RECURSIVE Base64UrlEncode(_)
Base64UrlEncode(bytes) ==
  LET b1 == bytes[1]
      b2 == bytes[2]
      b3 == bytes[3]
  IN CASE Len(bytes) = 0 -> <<>>
       [] Len(bytes) = 1 -> <<B64[(b1 \div 4) + 1], B64[(b1 % 4) * 16 + 1]>>
       [] Len(bytes) = 2 ->
            <<B64[(b1 \div 4) + 1], B64[(b1 % 4) * 16 + (b2 \div 16) + 1],
              B64[(b2 % 16) * 4 + 1]>>
       [] OTHER ->
            <<B64[(b1 \div 4) + 1], B64[(b1 % 4) * 16 + (b2 \div 16) + 1],
              B64[(b2 % 16) * 4 + (b3 \div 64) + 1], B64[(b3 % 64) + 1]>>
            \o Base64UrlEncode(SubSeq(bytes, 4, Len(bytes)))

\* Buffer.from(string, "base64url"): both alphabets are read, a character of
\* neither is skipped, and "=" ends the input
Unbase64(c) ==
  CASE c = "+" -> 62
    [] c = "/" -> 63
    [] c \in Range(B64) -> (CHOOSE i \in DOMAIN B64 : B64[i] = c) - 1
    [] OTHER -> 64
RECURSIVE Sextets(_)
Sextets(chars) ==
  IF chars = <<>> \/ Head(chars) = "=" THEN <<>>
  ELSE IF Unbase64(Head(chars)) < 64
  THEN <<Unbase64(Head(chars))>> \o Sextets(Tail(chars))
  ELSE Sextets(Tail(chars))
RECURSIVE SextetsToBytes(_)
SextetsToBytes(x) ==
  LET y1 == x[1] * 4 + (x[2] \div 16)
      y2 == (x[2] % 16) * 16 + (x[3] \div 4)
      y3 == (x[3] % 4) * 64 + x[4]
  IN CASE Len(x) <= 1 -> <<>>
       [] Len(x) = 2 -> <<y1>>
       [] Len(x) = 3 -> <<y1, y2>>
       [] OTHER -> <<y1, y2, y3>> \o SextetsToBytes(SubSeq(x, 5, Len(x)))
Base64UrlDecode(chars) == SextetsToBytes(Sextets(chars))

\* JSON.stringify
RECURSIVE NatToChars(_)
NatToChars(n) ==
  IF n < 10 THEN <<Ascii[17 + n]>>
  ELSE NatToChars(n \div 10) \o <<Ascii[17 + (n % 10)]>>
RECURSIVE FractionChars(_, _)
FractionChars(r, den) ==
  IF den = 1 THEN <<>>
  ELSE <<Ascii[17 + (r \div (den \div 10))]>>
       \o FractionChars(r % (den \div 10), den \div 10)
\* Number.prototype.toString, decimal notation
DecimalChars(neg, mag, den) ==
  (IF neg THEN <<"-">> ELSE <<>>)
  \o NatToChars(mag \div den)
  \o (IF den = 1 THEN <<>> ELSE <<".">> \o FractionChars(mag % den, den))
NumberToChars(x) ==
  DecimalChars(x.num < 0, IF x.num < 0 THEN 0 - x.num ELSE x.num, x.den)
QuoteChar(c) ==
  CASE c = "\"" -> <<"\\", "\"">>
    [] c = "\\" -> <<"\\", "\\">>
    [] c = "\n" -> <<"\\", "n">>
    [] c = "\r" -> <<"\\", "r">>
    [] c = "\t" -> <<"\\", "t">>
    [] OTHER -> <<c>>
RECURSIVE QuoteChars(_)
QuoteChars(chars) ==
  IF chars = <<>> THEN <<>> ELSE QuoteChar(Head(chars)) \o QuoteChars(Tail(chars))
Quote(chars) == <<"\"">> \o QuoteChars(chars) \o <<"\"">>
RECURSIVE JsonStringify(_)
RECURSIVE StringifyMembers(_, _)
RECURSIVE StringifyElements(_, _)
\* the properties whose value is undefined are left out
StringifyMembers(props, first) ==
  IF props = <<>> THEN <<>>
  ELSE IF Head(props).v.t = "undefined" THEN StringifyMembers(Tail(props), first)
  ELSE (IF first THEN <<>> ELSE <<",">>)
       \o Quote(Head(props).k) \o <<":">> \o JsonStringify(Head(props).v)
       \o StringifyMembers(Tail(props), FALSE)
StringifyElements(items, first) ==
  IF items = <<>> THEN <<>>
  ELSE (IF first THEN <<>> ELSE <<",">>)
       \o JsonStringify(Head(items)) \o StringifyElements(Tail(items), FALSE)
JsonStringify(v) ==
  CASE v.t = "number" -> NumberToChars(v)
    [] v.t = "string" -> Quote(v.chars)
    [] v.t = "boolean" -> IF v.b THEN <<"t", "r", "u", "e">> ELSE <<"f", "a", "l", "s", "e">>
    [] v.t = "object" -> <<"{">> \o StringifyMembers(v.props, TRUE) \o <<"}">>
    [] v.t = "array" -> <<"[">> \o StringifyElements(v.items, TRUE) \o <<"]">>
    [] OTHER -> <<"n", "u", "l", "l">>

\* JSON.parse: a result is [ok |-> TRUE, v |-> value, i |-> next index] or
\* ParseError, the SyntaxError it throws.  Numbers are read without exponent.
ParseError == [ok |-> FALSE]
Parsed(v, i) == [ok |-> TRUE, v |-> v, i |-> i]
At(s, i) == IF i \in DOMAIN s THEN s[i] ELSE "EOF"
RECURSIVE SkipWs(_, _)
SkipWs(s, i) == IF At(s, i) \in Whitespace THEN SkipWs(s, i + 1) ELSE i
RECURSIVE DigitRun(_, _)
DigitRun(s, i) == IF At(s, i) \in Digits THEN DigitRun(s, i + 1) ELSE i
RECURSIVE DigitsValue(_, _)
DigitsValue(ds, acc) ==
  IF ds = <<>> THEN acc ELSE DigitsValue(Tail(ds), acc * 10 + DigitValue(Head(ds)))
RECURSIVE Pow10(_)
Pow10(k) == IF k = 0 THEN 1 ELSE 10 * Pow10(k - 1)
\* the number literal in s from a on: its integer digits end before b, its
\* fraction, if it has one, before c
NumberValue(neg, intDigits, fracDigits, hasFrac, c) ==
  IF \/ intDigits = <<>>
     \/ (Len(intDigits) > 1 /\ Head(intDigits) = "0")
     \/ (hasFrac /\ fracDigits = <<>>)
  THEN ParseError
  ELSE Parsed(Num((IF neg THEN 0 - 1 ELSE 1) * DigitsValue(intDigits \o fracDigits, 0),
                  Pow10(Len(fracDigits))), c)
NumberFraction(s, neg, a, b, hasFrac, c) ==
  NumberValue(neg, SubSeq(s, a, b - 1),
              IF hasFrac THEN SubSeq(s, b + 1, c - 1) ELSE <<>>, hasFrac, c)
NumberInteger(s, neg, a, b) ==
  NumberFraction(s, neg, a, b, At(s, b) = ".",
                 IF At(s, b) = "." THEN DigitRun(s, b + 1) ELSE b)
ParseNumber(s, i) ==
  NumberInteger(s, At(s, i) = "-", IF At(s, i) = "-" THEN i + 1 ELSE i,
                DigitRun(s, IF At(s, i) = "-" THEN i + 1 ELSE i))
SimpleEscapes ==
  "\"" :> "\"" @@ "\\" :> "\\" @@ "/" :> "/" @@ "n" :> "\n" @@ "t" :> "\t"
  @@ "r" :> "\r" @@ "b" :> "CTRL" @@ "f" :> "CTRL"
\* the characters of a string literal, s[i - 1] being its opening quote
RECURSIVE ParseChars(_, _, _)
ParseChars(s, i, acc) ==
  LET c == At(s, i)
      e == At(s, i + 1)
  IN CASE c \in {"EOF", "CTRL", "\t", "\n", "\r"} -> ParseError
       [] c = "\"" -> Parsed(Str(acc), i + 1)
       [] c = "\\" /\ e \in DOMAIN SimpleEscapes ->
            ParseChars(s, i + 2, Append(acc, SimpleEscapes[e]))
       [] c = "\\" /\ e = "u" /\ \A k \in 2..5 : At(s, i + k) \in HexDigits ->
            ParseChars(s, i + 6, Append(acc, "U+FFFD"))
       [] c = "\\" -> ParseError
       [] OTHER -> ParseChars(s, i + 1, Append(acc, c))
ParseLiteral(s, i, word, v) ==
  IF i + Len(word) - 1 <= Len(s) /\ SubSeq(s, i, i + Len(word) - 1) = word
  THEN Parsed(v, i + Len(word))
  ELSE ParseError
\* obj[k] = v: a key that is there keeps its place
SetProp(props, k, v) ==
  IF \E n \in DOMAIN props : props[n].k = k
  THEN [n \in DOMAIN props |-> IF props[n].k = k THEN [k |-> k, v |-> v] ELSE props[n]]
  ELSE Append(props, [k |-> k, v |-> v])
RECURSIVE ParseValue(_, _)
RECURSIVE ParseMembers(_, _, _)
RECURSIVE ParseElements(_, _, _)
\* the members of an object literal, one step for each token of a member
MemberNext(s, props, e) ==
  IF At(s, e) = "," THEN ParseMembers(s, e + 1, props)
  ELSE IF At(s, e) = "}" THEN Parsed(Obj(props), e + 1)
  ELSE ParseError
MemberEnd(s, k, val, props) ==
  IF ~val.ok THEN ParseError
  ELSE MemberNext(s, SetProp(props, k, val.v), SkipWs(s, val.i))
MemberValue(s, k, colon, props) ==
  IF At(s, colon) # ":" THEN ParseError
  ELSE MemberEnd(s, k, ParseValue(s, colon + 1), props)
MemberColon(s, key, props) ==
  IF ~key.ok THEN ParseError
  ELSE MemberValue(s, key.v.chars, SkipWs(s, key.i), props)
MemberKey(s, j, props) ==
  IF At(s, j) # "\"" THEN ParseError
  ELSE MemberColon(s, ParseChars(s, j + 1, <<>>), props)
ParseMembers(s, i, props) == MemberKey(s, SkipWs(s, i), props)
\* the elements of an array literal
ElementNext(s, items, e) ==
  IF At(s, e) = "," THEN ParseElements(s, e + 1, items)
  ELSE IF At(s, e) = "]" THEN Parsed(Arr(items), e + 1)
  ELSE ParseError
ElementEnd(s, val, items) ==
  IF ~val.ok THEN ParseError
  ELSE ElementNext(s, Append(items, val.v), SkipWs(s, val.i))
ParseElements(s, i, items) == ElementEnd(s, ParseValue(s, i), items)
\* the value that starts at j, k being the first index after j that holds
\* no white space
ValueAt(s, j, c, k) ==
  CASE c = "{" -> IF At(s, k) = "}" THEN Parsed(Obj(<<>>), k + 1)
                  ELSE ParseMembers(s, j + 1, <<>>)
    [] c = "[" -> IF At(s, k) = "]" THEN Parsed(Arr(<<>>), k + 1)
                  ELSE ParseElements(s, j + 1, <<>>)
    [] c = "\"" -> ParseChars(s, j + 1, <<>>)
    [] c = "-" \/ c \in Digits -> ParseNumber(s, j)
    [] c = "t" -> ParseLiteral(s, j, <<"t", "r", "u", "e">>, Bool(TRUE))
    [] c = "f" -> ParseLiteral(s, j, <<"f", "a", "l", "s", "e">>, Bool(FALSE))
    [] c = "n" -> ParseLiteral(s, j, <<"n", "u", "l", "l">>, Null)
    [] OTHER -> ParseError
ValueFrom(s, j) == ValueAt(s, j, At(s, j), SkipWs(s, j + 1))
ParseValue(s, i) == ValueFrom(s, SkipWs(s, i))
\* nothing but white space may follow the value
WholeText(s, r) ==
  IF r.ok /\ SkipWs(s, r.i) = Len(s) + 1 THEN r ELSE ParseError
JsonParse(s) == WholeText(s, ParseValue(s, 1))

\* mutant: the cursor carries the offset only
encodeCursorOffsetOnly(data) ==
  Base64UrlEncode(Utf8Bytes(JsonStringify(Obj(<<Head(data.props)>>))))
\* Buffer.from(JSON.stringify(data)).toString("base64url")
encodeCursor(data) == Base64UrlEncode(Utf8Bytes(JsonStringify(data)))

\* JSON.parse(Buffer.from(cursor, "base64url").toString("utf-8")), null when
\* that throws
ValueOrNull(parsed) == IF parsed.ok THEN parsed.v ELSE Null
decodeCursor(cursor) ==
  ValueOrNull(JsonParse(Utf8String(Base64UrlDecode(cursor))))

\* ---------------------------------------------------------------- types.ts
\* meta: { retrieved_at, warnings: [], ...meta }: a key the caller gives wins
\* over the default, also when its value is undefined.  An optional value is
\* {} (undefined) or {v}; retrieved_at and source are left out.
createSuccessResponse(data, meta) ==
  [ok |-> TRUE, data |-> data,
   meta |-> [k \in {"warnings"} \cup DOMAIN meta |->
               IF k \in DOMAIN meta THEN meta[k] ELSE {<<>>}]]
createErrorResponse(code, message) ==
  [ok |-> FALSE, error |-> [code |-> code, message |-> message]]

\* ------------------------------------------------------------ control flow
Top == Head(stack)
Running == stack # <<>> /\ Len(stack) <= MaxDepth
Quiet == UNCHANGED <<pending, fetchLog, web>>
\* the top frame becomes f
Goto(f) == stack' = <<f>> \o Tail(stack) /\ ret' = <<>> /\ response' = response
\* the top frame becomes f and calls g
Call(g, f) == stack' = <<g, f>> \o Tail(stack) /\ ret' = <<>> /\ response' = response
\* the top frame returns v
Return(v) ==
  /\ stack' = Tail(stack)
  /\ ret' = v
  /\ response' = IF Tail(stack) = <<>> THEN <<v>> ELSE response
\* the discoveredFrom argument of the checkSitemap call that fetches
FetchedFor(f) == IF f.fn = "checkSitemap" THEN f.discoveredFrom ELSE "none"
\* the top frame issues fetch(u) and awaits it
\* mutant: the fetch of robots.txt is started along with the fetch asked for
IssueWithPrefetch(u) ==
  /\ pending' = <<u>>
  /\ fetchLog' = fetchLog \o <<[url |-> robotsTxtUrl, by |-> Top.fn, from |-> FetchedFor(Top),
                                 st |-> "pending"],
                                [url |-> u, by |-> Top.fn, from |-> FetchedFor(Top),
                                 st |-> "pending"]>>
  /\ web' = web
Issue(u) ==
  /\ pending' = <<u>>
  /\ fetchLog' = Append(fetchLog, [url |-> u, by |-> Top.fn, from |-> FetchedFor(Top),
                                   st |-> "pending"])
  /\ web' = web
\* the awaited fetch settled as r; `d` is the document it delivered, if any
Settle(u, r, d) ==
  /\ pending' = <<>>
  /\ fetchLog' = [fetchLog EXCEPT ![Len(fetchLog)].st =
                                    IF r.st = "ok" THEN "ok" ELSE "failed"]
  /\ web' = IF d = <<>> THEN web ELSE [web EXCEPT ![u] = d]

\* ------------------------------------------------------------- discover.ts
CheckSitemapFrame(url, discoveredFrom) ==
  [fn |-> "checkSitemap", pc |-> "entry", url |-> url, discoveredFrom |-> discoveredFrom]

\* checkSitemap's value: null (<<>>) or the DiscoveredSitemap
CheckSitemapResult(f, r) ==
  IF r.st # "ok" THEN <<>>
  ELSE <<[url |-> f.url,
          type |-> IF r.doc.index THEN "sitemap_index" ELSE "sitemap",
          discovered_from |-> f.discoveredFrom]>>

checkSitemap ==
  /\ Running /\ Top.fn = "checkSitemap"
  /\ UNCHANGED <<op, args, dVisited, cVisited, listVars, cursorVars, parked, httpVars, matchVars>>
  /\ CASE Top.pc = "entry" ->
            Issue(Top.url) /\ Goto([Top EXCEPT !.pc = "await"])
       [] Top.pc = "await" ->
            \E r \in FetchOutcomes(TagDocs(Top.url)) :
              /\ Settle(Top.url, r, IF r.st = "ok" THEN <<r.doc>> ELSE <<>>)
              /\ Return(CheckSitemapResult(Top, r))

RobotsFrame(url) ==
  [fn |-> "parseSitemapsFromRobotsTxt", pc |-> "entry", robotsTxtUrl |-> url]

\* mutant: a robots.txt without a valid Sitemap: directive counts as not found
RobotsFoundWhenListing(r) ==
  IF r.st # "ok" THEN [sitemaps |-> <<>>, found |-> FALSE]
  ELSE [sitemaps |-> SelectSeq(r.lines, IsValidUrl),
        found |-> SelectSeq(r.lines, IsValidUrl) # <<>>]
\* the Sitemap: directives of the body, the invalid URLs dropped
RobotsResult(r) ==
  IF r.st # "ok" THEN [sitemaps |-> <<>>, found |-> FALSE]
  ELSE [sitemaps |-> SelectSeq(r.lines, IsValidUrl), found |-> TRUE]

parseSitemapsFromRobotsTxt ==
  /\ Running /\ Top.fn = "parseSitemapsFromRobotsTxt"
  /\ UNCHANGED <<op, args, dVisited, cVisited, listVars, cursorVars, parked, httpVars, matchVars>>
  /\ CASE Top.pc = "entry" ->
            Issue(Top.robotsTxtUrl) /\ Goto([Top EXCEPT !.pc = "await"])
       [] Top.pc = "await" ->
            \E r \in FetchFailures \cup {[st |-> "ok", lines |-> l] : l \in RobotsLists} :
              /\ Settle(Top.robotsTxtUrl, r, <<>>)
              /\ Return(RobotsResult(r))

IndexFrame(indexUrl) ==
  [fn |-> "discoverFromSitemapIndex", pc |-> "entry", indexUrl |-> indexUrl,
   sitemapEntries |-> <<>>, i |-> 1, sitemaps |-> <<>>]

\* visited.has(indexUrl): the guard at the head of discoverFromSitemapIndex
IndexAlreadyVisited(indexUrl, visited) == indexUrl \in visited

discoverFromSitemapIndex ==
  /\ Running /\ Top.fn = "discoverFromSitemapIndex"
  /\ UNCHANGED <<op, args, cVisited, listVars, cursorVars, parked, httpVars, matchVars>>
  /\ CASE Top.pc = "entry" ->
            IF IndexAlreadyVisited(Top.indexUrl, dVisited)
            THEN Return(<<>>) /\ Quiet /\ dVisited' = dVisited
            ELSE /\ dVisited' = dVisited \cup {Top.indexUrl}
                 /\ Issue(Top.indexUrl)
                 /\ Goto([Top EXCEPT !.pc = "await"])
       [] Top.pc = "await" ->
            \E r \in FetchOutcomes(BodyDocs(Top.indexUrl)) :
              /\ Settle(Top.indexUrl, r, IF r.st = "ok" THEN <<r.doc>> ELSE <<>>)
              /\ dVisited' = dVisited
              /\ IF r.st = "ok" /\ r.doc.index /\ r.doc.items # <<>>
                 THEN Goto([Top EXCEPT !.pc = "loop", !.sitemapEntries = r.doc.items])
                 ELSE Return(<<>>)
       [] Top.pc = "loop" ->
            /\ Quiet /\ dVisited' = dVisited
            /\ IF Top.i > Len(Top.sitemapEntries) THEN Return(Top.sitemaps)
               ELSE LET loc == Top.sitemapEntries[Top.i] IN
                    IF IsValidUrl(loc) /\ loc \notin dVisited
                    THEN Call(CheckSitemapFrame(loc, "sitemap_index"),
                              [Top EXCEPT !.pc = "child_ret"])
                    ELSE Goto([Top EXCEPT !.i = @ + 1])
       [] Top.pc = "child_ret" ->
            /\ Quiet /\ dVisited' = dVisited
            /\ IF ret = <<>> THEN Goto([Top EXCEPT !.pc = "loop", !.i = @ + 1])
               ELSE IF ret[1].type = "sitemap_index"
               THEN Call(IndexFrame(ret[1].url),
                         [Top EXCEPT !.pc = "nested_ret", !.sitemaps = Append(@, ret[1])])
               ELSE Goto([Top EXCEPT !.pc = "loop", !.i = @ + 1,
                                     !.sitemaps = Append(@, ret[1])])
       [] Top.pc = "nested_ret" ->
            /\ Quiet /\ dVisited' = dVisited
            /\ Goto([Top EXCEPT !.pc = "loop", !.i = @ + 1, !.sitemaps = @ \o ret])

DiscoverFrame(url) ==
  [fn |-> "discoverSitemaps", pc |-> "entry", url |-> url, normalizedUrl |-> "",
   sitemaps |-> <<>>, warnings |-> <<>>, robotsSitemaps |-> <<>>,
   robotsTxtFound |-> FALSE, alt |-> <<>>, i |-> 1]

\* mutant: the alternative locations are tried only when nothing was found
AlternativesWhenNothingFound(f) ==
  IF f.sitemaps = <<>> THEN alternativeLocations ELSE <<>>
\* for (const altUrl of alternativeLocations): the third step goes through
\* all of them, whatever the first two steps found
AlternativesToProbe(f) == alternativeLocations

DiscoverResponse(f) ==
  createSuccessResponse(
    [domain |-> "https://example.com", sitemaps |-> f.sitemaps,
     robots_txt_found |-> f.robotsTxtFound],
    [warnings |-> {IF Len(f.sitemaps) = 0
                   THEN <<"No sitemaps found for this domain">> ELSE <<>>}])

\* mutant: the visited set is never consulted
NothingVisited(url, visited) == FALSE
\* visited.has(url): the guard in front of the probes of steps 2 and 3
AlreadyVisited(url, visited) == url \in visited

\* a probe came back: push it and mark it visited, then expand it if it is an
\* index (pc `expand`), else go on with the loop (pc `next`)
AfterProbe(f, expand, next) ==
  IF ret = <<>> THEN Goto([f EXCEPT !.pc = next, !.i = @ + 1]) /\ dVisited' = dVisited
  ELSE /\ dVisited' = dVisited \cup {ret[1].url}
       /\ IF ret[1].type = "sitemap_index"
          THEN Call(IndexFrame(ret[1].url),
                    [f EXCEPT !.pc = expand, !.sitemaps = Append(@, ret[1])])
          ELSE Goto([f EXCEPT !.pc = next, !.i = @ + 1, !.sitemaps = Append(@, ret[1])])

discoverSitemaps ==
  /\ Running /\ Top.fn = "discoverSitemaps"
  /\ UNCHANGED <<op, args, cVisited, listVars, cursorVars, parked, httpVars, matchVars>>
  /\ Quiet
  /\ CASE Top.pc = "entry" ->
            IF Top.url = ""
            THEN /\ Return(createErrorResponse("INVALID_INPUT",
                                               "URL is required and must be a string"))
                 /\ dVisited' = dVisited
            ELSE IF NormalizeUrl(Top.url) = <<>>
            THEN /\ Return(createErrorResponse("INVALID_INPUT",
                       "Invalid URL format. Please provide a valid HTTP or HTTPS URL."))
                 /\ dVisited' = dVisited
            ELSE /\ dVisited' = {}
                 /\ Call(CheckSitemapFrame(standardSitemapUrl, "standard_location"),
                         [Top EXCEPT !.pc = "std_ret", !.i = 0,
                                     !.normalizedUrl = NormalizeUrl(Top.url)[1]])
       \* 1. the standard /sitemap.xml location
       [] Top.pc = "std_ret" -> AfterProbe(Top, "std_children", "robots")
       [] Top.pc = "std_children" ->
            /\ dVisited' = dVisited
            /\ Goto([Top EXCEPT !.pc = "robots", !.sitemaps = @ \o ret])
       \* 2. robots.txt
       [] Top.pc = "robots" ->
            /\ dVisited' = dVisited
            /\ Call(RobotsFrame(robotsTxtUrl), [Top EXCEPT !.pc = "robots_ret"])
       [] Top.pc = "robots_ret" ->
            /\ dVisited' = dVisited
            /\ Goto([Top EXCEPT !.pc = "robots_loop", !.i = 1,
                                !.robotsSitemaps = ret.sitemaps,
                                !.robotsTxtFound = ret.found])
       [] Top.pc = "robots_loop" ->
            /\ dVisited' = dVisited
            /\ IF Top.i > Len(Top.robotsSitemaps)
               THEN Goto([Top EXCEPT !.pc = "alt_loop", !.i = 1,
                                     !.alt = AlternativesToProbe(Top)])
               ELSE IF AlreadyVisited(Top.robotsSitemaps[Top.i], dVisited)
               THEN Goto([Top EXCEPT !.i = @ + 1])
               ELSE Call(CheckSitemapFrame(Top.robotsSitemaps[Top.i], "robots_txt"),
                         [Top EXCEPT !.pc = "robots_probe_ret"])
       [] Top.pc = "robots_probe_ret" -> AfterProbe(Top, "robots_children", "robots_loop")
       [] Top.pc = "robots_children" ->
            /\ dVisited' = dVisited
            /\ Goto([Top EXCEPT !.pc = "robots_loop", !.i = @ + 1, !.sitemaps = @ \o ret])
       \* 3. the alternative locations
       [] Top.pc = "alt_loop" ->
            /\ dVisited' = dVisited
            /\ IF Top.i > Len(Top.alt) THEN Return(DiscoverResponse(Top))
               ELSE IF AlreadyVisited(Top.alt[Top.i], dVisited)
               THEN Goto([Top EXCEPT !.i = @ + 1])
               ELSE Call(CheckSitemapFrame(Top.alt[Top.i], "standard_location"),
                         [Top EXCEPT !.pc = "alt_probe_ret"])
       [] Top.pc = "alt_probe_ret" -> AfterProbe(Top, "alt_children", "alt_loop")
       [] Top.pc = "alt_children" ->
            /\ dVisited' = dVisited
            /\ Goto([Top EXCEPT !.pc = "alt_loop", !.i = @ + 1, !.sitemaps = @ \o ret])

\* ----------------------------------------------------------------- list.ts
\* parseSitemapContent: an index when parsed.sitemapindex?.sitemap is there,
\* else the <url> entries of a urlset, else nothing
\* if (entry.loc): an element without loc, or with an empty one, has the
\* empty value of its kind as item
HasLoc(doc, entry) == IF doc.index THEN entry # "" ELSE entry # <<>>
Located(doc) == SelectSeq(doc.items, LAMBDA entry : HasLoc(doc, entry))
parseSitemapContent(doc) ==
  IF doc.index /\ doc.items # <<>>
  THEN [urls |-> Located(doc), isIndex |-> TRUE, indexUrls |-> Located(doc)]
  ELSE IF ~doc.index
  THEN [urls |-> Located(doc), isIndex |-> FALSE, indexUrls |-> <<>>]
  ELSE [urls |-> <<>>, isIndex |-> FALSE, indexUrls |-> <<>>]

\* the operators listSitemapUrls applies to the offset it read from a cursor
OffsetKey == <<"o", "f", "f", "s", "e", "t">>
SitemapUrlKey == <<"s", "i", "t", "e", "m", "a", "p", "_", "u", "r", "l">>
\* !!v
Truthy(v) ==
  CASE v.t \in {"undefined", "null", "NaN"} -> FALSE
    [] v.t = "number" -> v.num # 0
    [] v.t = "string" -> v.chars # <<>>
    [] v.t = "boolean" -> v.b
    [] OTHER -> TRUE
\* v[key]
GetProp(v, key) ==
  IF v.t = "object" /\ \E n \in DOMAIN v.props : v.props[n].k = key
  THEN v.props[CHOOSE n \in DOMAIN v.props : v.props[n].k = key].v
  ELSE Undefined
RECURSIVE JsToString(_)
RECURSIVE JoinElements(_, _)
JoinElements(items, first) ==
  IF items = <<>> THEN <<>>
  ELSE (IF first THEN <<>> ELSE <<",">>)
       \o (IF Head(items).t \in {"undefined", "null"} THEN <<>> ELSE JsToString(Head(items)))
       \o JoinElements(Tail(items), FALSE)
\* String(v)
JsToString(v) ==
  CASE v.t = "number" -> NumberToChars(v)
    [] v.t = "string" -> v.chars
    [] v.t = "NaN" -> <<"N", "a", "N">>
    [] v.t = "boolean" -> IF v.b THEN <<"t", "r", "u", "e">> ELSE <<"f", "a", "l", "s", "e">>
    [] v.t = "null" -> <<"n", "u", "l", "l">>
    [] v.t = "array" -> JoinElements(v.items, TRUE)
    [] v.t = "object" ->
         <<"[", "o", "b", "j", "e", "c", "t", " ", "O", "b", "j", "e", "c", "t", "]">>
    [] OTHER -> <<"u", "n", "d", "e", "f", "i", "n", "e", "d">>
ToPrimitive(v) == IF v.t \in {"object", "array"} THEN Str(JsToString(v)) ELSE v
RECURSIVE Trim(_)
Trim(cs) ==
  IF cs # <<>> /\ Head(cs) \in Whitespace THEN Trim(Tail(cs))
  ELSE IF cs # <<>> /\ cs[Len(cs)] \in Whitespace THEN Trim(SubSeq(cs, 1, Len(cs) - 1))
  ELSE cs
\* Number(string), decimal literals without exponent: the digits of s from
\* a on end before b, those of its fraction before c
DecimalValue(s, neg, intDigits, fracDigits, c) ==
  IF c # Len(s) + 1 \/ (intDigits = <<>> /\ fracDigits = <<>>) THEN NaN
  ELSE Num((IF neg THEN 0 - 1 ELSE 1) * DigitsValue(intDigits \o fracDigits, 0),
           Pow10(Len(fracDigits)))
DecimalFraction(s, a, b, hasDot, c) ==
  DecimalValue(s, At(s, 1) = "-", SubSeq(s, a, b - 1),
               IF hasDot THEN SubSeq(s, b + 1, c - 1) ELSE <<>>, c)
DecimalInteger(s, a, b) ==
  DecimalFraction(s, a, b, At(s, b) = ".",
                  IF At(s, b) = "." THEN DigitRun(s, b + 1) ELSE b)
DecimalLiteral(s, a) == DecimalInteger(s, a, DigitRun(s, a))
TrimmedToNumber(s) ==
  IF s = <<>> THEN Integer(0)
  ELSE DecimalLiteral(s, IF At(s, 1) \in {"+", "-"} THEN 2 ELSE 1)
StringToNumber(chars) == TrimmedToNumber(Trim(chars))
\* Number(v)
PrimitiveToNumber(p) ==
  CASE p.t = "number" -> p
    [] p.t = "null" -> Integer(0)
    [] p.t = "boolean" -> Integer(IF p.b THEN 1 ELSE 0)
    [] p.t = "string" -> StringToNumber(p.chars)
    [] OTHER -> NaN
ToNumber(v) == PrimitiveToNumber(ToPrimitive(v))
\* the integer an Array.prototype.slice argument stands for
Truncate(x) ==
  IF x.t = "NaN" THEN 0
  ELSE IF x.num >= 0 THEN x.num \div x.den
  ELSE 0 - ((0 - x.num) \div x.den)
ToIntegerOrInfinity(v) == Truncate(ToNumber(v))
\* v + n, n a number
AddNumber(x, n) == IF x.t = "NaN" THEN NaN ELSE Num(x.num + n * x.den, x.den)
AddPrimitive(p, n) ==
  IF p.t = "string" THEN Str(p.chars \o NumberToChars(Integer(n)))
  ELSE AddNumber(PrimitiveToNumber(p), n)
JsAdd(v, n) == AddPrimitive(ToPrimitive(v), n)
\* v < n, n a number
NumberLess(x, n) == x.t # "NaN" /\ x.num < n * x.den
JsLessThan(v, n) == NumberLess(ToNumber(v), n)

\* Math.min(Math.max(1, limit ?? DEFAULT_LIMIT), MAX_LIMIT)
ListPageLimit(limit) ==
  Min(Max(1, Coalesce(limit, LIST_DEFAULT_LIMIT)), LIST_MAX_LIMIT)
\* mutant: a page that ends at the last entry still announces more
HasMoreInclusive(offset, pageLimit, length) ==
  JsLessThan(JsAdd(offset, pageLimit), length + 1)
\* offset + pageLimit < urls.length
HasMore(offset, pageLimit, length) ==
  JsLessThan(JsAdd(offset, pageLimit), length)
\* the words the catch block of listSitemapUrls looks for in error.message
TimeoutWord == <<"t", "i", "m", "e", "o", "u", "t">>
HttpWord == <<"H", "T", "T", "P">>
ParseWords == {<<"p", "a", "r", "s", "e">>, <<"X", "M", "L">>, <<"U", "n", "e", "x", "p", "e", "c", "t", "e", "d">>}
\* status and statusText of a response that is not ok: statusText is the
\* reason phrase the server chose to send
StatusLines ==
  {[status |-> <<"4", "0", "4">>, statusText |-> <<"N", "o", "t", " ", "F", "o", "u", "n", "d">>],
   [status |-> <<"5", "0", "4">>, statusText |-> <<"G", "a", "t", "e", "w", "a", "y", " ", "T", "i", "m", "e", "o", "u", "t">>],
   [status |-> <<"5", "0", "3">>, statusText |-> <<"u", "p", "s", "t", "r", "e", "a", "m", " ", "t", "i", "m", "e", "o", "u", "t">>]}
\* new Error(`HTTP ${response.status}: ${response.statusText}`)
HttpError(line) ==
  [name |-> "Error",
   message |-> <<"H", "T", "T", "P", " ">> \o line.status \o <<":", " ">> \o line.statusText]
\* what fetch rejects with: the abort of the timeout, a failure of the network
AbortError == [name |-> "AbortError", message |-> <<"T", "h", "i", "s", " ", "o", "p", "e", "r", "a", "t", "i", "o", "n", " ", "w", "a", "s", " ", "a", "b", "o", "r", "t", "e", "d">>]
NetworkError == [name |-> "TypeError", message |-> <<"f", "e", "t", "c", "h", " ", "f", "a", "i", "l", "e", "d">>]
\* what xmlParser.parse throws on a text it gives up on; the wording is the
\* parser's, with or without a word the catch block looks for
ParserErrors ==
  {[name |-> "Error", message |-> <<"U", "n", "e", "x", "p", "e", "c", "t", "e", "d", " ", "e", "n", "d", " ", "o", "f", " ", "i", "n", "p", "u", "t">>],
   [name |-> "Error", message |-> <<"C", "l", "o", "s", "i", "n", "g", " ", "T", "a", "g", " ", "i", "s", " ", "n", "o", "t", " ", "c", "l", "o", "s", "e", "d", ".">>]}
\* a body with neither a urlset nor a sitemapindex container
NoContainer == [index |-> FALSE, known |-> TRUE, items |-> <<>>]
RootOf(doc) == IF doc.index THEN "sitemapindex" ELSE "urlset"
\* fetchSitemap(url): the sitemap document parsed, another body parsed, or an
\* error thrown: the timeout aborts the fetch, the network fails, the status
\* is not ok, the parser gives up
ListFetchOutcomes(doc) ==
  {[st |-> "ok", doc |-> doc, root |-> RootOf(doc)],
   [st |-> "ok", doc |-> NoContainer, root |-> "html"],
   [st |-> "abort", error |-> AbortError],
   [st |-> "throw", error |-> NetworkError]}
  \cup {[st |-> "notok", error |-> HttpError(l)] : l \in StatusLines}
  \cup {[st |-> "malformed", error |-> e] : e \in ParserErrors}
\* error.message.includes("parse") || includes("XML") || includes("Unexpected")
NamesParsing(message) == \E w \in ParseWords : Includes(message, w)
\* the catch block of listSitemapUrls, every error being an Error
ListCatch(error) ==
  IF error.name = "AbortError" \/ Includes(error.message, TimeoutWord)
  THEN createErrorResponse("TIMEOUT", "Request timed out while fetching sitemap")
  ELSE IF Includes(error.message, HttpWord)
  THEN createErrorResponse("UPSTREAM_ERROR", "error.message")
  ELSE IF NamesParsing(error.message)
  THEN createErrorResponse("PARSE_ERROR", "Failed to parse sitemap XML")
  ELSE createErrorResponse("UPSTREAM_ERROR", "error.message")
ListErrorResponse(r) == ListCatch(r.error)
\* the try block of listSitemapUrls once fetchSitemap has returned
PageResponse(sitemapUrl, isIndex, paginatedUrls, nextCursor) ==
  createSuccessResponse(
    [sitemap_url |-> sitemapUrl, urls |-> paginatedUrls,
     total_in_page |-> Len(paginatedUrls), is_index |-> isIndex],
    [pagination |-> [next_cursor |-> nextCursor]])
ListPage(sitemapUrl, parsed, offset, pageLimit) ==
  PageResponse(
    sitemapUrl, parsed.isIndex,
    JsSlice(parsed.urls, ToIntegerOrInfinity(offset),
            ToIntegerOrInfinity(JsAdd(offset, pageLimit))),
    IF HasMore(offset, pageLimit, Len(parsed.urls))
    THEN <<encodeCursor(Obj(<<[k |-> OffsetKey, v |-> JsAdd(offset, pageLimit)]>>))>>
    ELSE <<>>)
\* listSitemapUrls from its cursor check on: `given` is the truthiness of the
\* cursor argument, cursorData what decodeCursor returned for it
ListFrom(sitemapUrl, pageLimit, given, cursorData, r) ==
  IF given /\ ~Truthy(cursorData)
  THEN createErrorResponse("INVALID_INPUT", "Invalid cursor format")
  ELSE IF r.st = "ok"
  THEN ListPage(sitemapUrl, parseSitemapContent(r.doc),
                IF given THEN GetProp(cursorData, OffsetKey) ELSE Integer(0), pageLimit)
  ELSE ListErrorResponse(r)
\* the returns of listSitemapUrls that come before its try block: fetchSitemap
\* is called when the URL is valid and the cursor, if given, decodes truthy
CursorGiven(cursor) == cursor # {} /\ cursor # {<<>>}
CursorRejected(cursor) ==
  CursorGiven(cursor) /\ ~Truthy(decodeCursor(CHOOSE c \in cursor : TRUE))
\* mutant: the document is fetched before the arguments are looked at
ListFetchesFirst(sitemapUrl, cursor) == TRUE
ListReachesFetch(sitemapUrl, cursor) ==
  sitemapUrl # "" /\ IsValidUrl(sitemapUrl) /\ ~CursorRejected(cursor)
\* the call returned without a fetch
NoFetch == [st |-> "none"]
\* listSitemapUrls(sitemapUrl, limit, cursor), r being what the fetch gives;
\* an argument left out is {}, the empty string is {<<>>}
ListSitemapUrls(sitemapUrl, limit, cursor, r) ==
  IF sitemapUrl = ""
  THEN createErrorResponse("INVALID_INPUT", "sitemap_url is required and must be a string")
  ELSE IF ~IsValidUrl(sitemapUrl)
  THEN createErrorResponse("INVALID_INPUT", "Invalid sitemap URL format")
  ELSE ListFrom(sitemapUrl, ListPageLimit(limit), cursor # {} /\ cursor # {<<>>},
                IF cursor = {} THEN Null ELSE decodeCursor(CHOOSE c \in cursor : TRUE), r)

\* listSitemapUrls as a call of its own: a frame that awaits fetchSitemap
ListFrame(sitemapUrl, limit, cursor) ==
  [fn |-> "listSitemapUrls", pc |-> "entry", sitemapUrl |-> sitemapUrl,
   limit |-> limit, cursor |-> cursor]
\* what fetchSitemap(u) comes back with, the site serving at u what `web` says
SitemapFetchOutcomes(u) ==
  {r \in ListFetchOutcomes(NoContainer) : r.st # "ok"}
    \cup UNION {ListFetchOutcomes(d) : d \in BodyDocs(u)}

listSitemapUrlsCall ==
  /\ Running /\ Top.fn = "listSitemapUrls"
  /\ UNCHANGED <<op, args, dVisited, cVisited, listVars, cursorVars, parked, httpVars, matchVars>>
  /\ CASE Top.pc = "entry" ->
            IF ListReachesFetch(Top.sitemapUrl, Top.cursor)
            THEN Issue(Top.sitemapUrl) /\ Goto([Top EXCEPT !.pc = "await"])
            ELSE /\ Quiet
                 /\ Return(ListSitemapUrls(Top.sitemapUrl, Top.limit, Top.cursor, NoFetch))
       [] Top.pc = "await" ->
            \E r \in SitemapFetchOutcomes(Top.sitemapUrl) :
              /\ Settle(Top.sitemapUrl, r,
                        IF r.st = "ok" /\ r.root # "html" THEN <<r.doc>> ELSE <<>>)
              /\ Return(ListSitemapUrls(Top.sitemapUrl, Top.limit, Top.cursor, r))

\* ------------------------------------------------------------- frontier.ts
\* a pattern is a JavaScript value, a string once the rules are validated
\* include.some((pattern) => matchesPattern(url, pattern))
SomeMatches(url, patterns) ==
  \E k \in 1..Len(patterns) : matchesPattern(url, patterns[k].chars)
passesFilters(url, rules) ==
  /\ Len(rules.include) > 0 => SomeMatches(url, rules.include)
  /\ Len(rules.exclude) > 0 => ~SomeMatches(url, rules.exclude)

\* mutant: a document starts out as not processed
CollectFrameUncounted(sitemapUrl, rules, maxUrls) ==
  [fn |-> "collectUrlsFromSitemap", pc |-> "entry", sitemapUrl |-> sitemapUrl,
   rules |-> rules, maxUrls |-> maxUrls, urls |-> <<>>, sitemapsProcessed |-> 0,
   indexUrls |-> <<>>, i |-> 1]
CollectFrame(sitemapUrl, rules, maxUrls) ==
  [fn |-> "collectUrlsFromSitemap", pc |-> "entry", sitemapUrl |-> sitemapUrl,
   rules |-> rules, maxUrls |-> maxUrls, urls |-> <<>>, sitemapsProcessed |-> 1,
   indexUrls |-> <<>>, i |-> 1]

\* for (const entry of entries) over a leaf: stop at maxUrls, keep what passes
RECURSIVE LeafLoop(_, _, _, _)
LeafLoop(f, entries, k, urls) ==
  IF k > Len(entries) \/ Len(urls) >= f.maxUrls THEN urls
  ELSE LeafLoop(f, entries, k + 1,
                IF passesFilters(entries[k], f.rules)
                THEN Append(urls, [url |-> entries[k], source_sitemap |-> f.sitemapUrl])
                ELSE urls)

\* mutant: the visited guard of collectUrlsFromSitemap never fires
CollectNeverVisited(sitemapUrl, visited) == FALSE

\* mutant: a URL counts as visited only once its fetch has succeeded
CollectVisitedWhenRead(sitemapUrl, visited) ==
  sitemapUrl \in visited
    /\ \E e \in Range(fetchLog) :
         e.url = sitemapUrl /\ e.by = "collectUrlsFromSitemap" /\ e.st = "ok"
\* visited.has(sitemapUrl): the guard at the head of collectUrlsFromSitemap
CollectAlreadyVisited(sitemapUrl, visited) == sitemapUrl \in visited

collectUrlsFromSitemap ==
  /\ Running /\ Top.fn = "collectUrlsFromSitemap"
  /\ UNCHANGED <<op, args, dVisited, listVars, cursorVars, parked, httpVars, matchVars>>
  /\ CASE Top.pc = "entry" ->
            IF CollectAlreadyVisited(Top.sitemapUrl, cVisited)
            THEN /\ Return([urls |-> <<>>, sitemapsProcessed |-> 0])
                 /\ Quiet /\ cVisited' = cVisited
            ELSE /\ cVisited' = cVisited \cup {Top.sitemapUrl}
                 /\ Issue(Top.sitemapUrl)
                 /\ Goto([Top EXCEPT !.pc = "await"])
       [] Top.pc = "await" ->
            \E r \in FetchOutcomes(BodyDocs(Top.sitemapUrl)) :
              /\ Settle(Top.sitemapUrl, r, IF r.st = "ok" THEN <<r.doc>> ELSE <<>>)
              /\ cVisited' = cVisited
              /\ IF r.st # "ok"
                 \* fetchSitemap threw: the catch block
                 THEN Return([urls |-> Top.urls, sitemapsProcessed |-> 0])
                 ELSE LET p == parseSitemapContent(r.doc) IN
                      IF p.isIndex
                      THEN Goto([Top EXCEPT !.pc = "loop", !.indexUrls = p.indexUrls])
                      ELSE Return([urls |-> LeafLoop(Top, p.urls, 1, Top.urls),
                                   sitemapsProcessed |-> Top.sitemapsProcessed])
       [] Top.pc = "loop" ->
            /\ Quiet /\ cVisited' = cVisited
            /\ IF Top.i > Len(Top.indexUrls) \/ Len(Top.urls) >= Top.maxUrls
               THEN Return([urls |-> Top.urls, sitemapsProcessed |-> Top.sitemapsProcessed])
               ELSE Call(CollectFrame(Top.indexUrls[Top.i], Top.rules,
                                      Top.maxUrls - Len(Top.urls)),
                         [Top EXCEPT !.pc = "child_ret"])
       [] Top.pc = "child_ret" ->
            /\ Quiet /\ cVisited' = cVisited
            /\ Goto([Top EXCEPT !.pc = "loop", !.i = @ + 1,
                                !.urls = @ \o ret.urls,
                                !.sitemapsProcessed = @ + ret.sitemapsProcessed])

BuildFrame(seedUrl, rules, limit) ==
  [fn |-> "buildCrawlFrontier", pc |-> "entry", seedUrl |-> seedUrl, rules |-> rules,
   limit |-> limit, normalizedSeedUrl |-> "",
   normalizedRules |-> [include |-> <<>>, exclude |-> <<>>, max_urls |-> 0],
   effectiveLimit |-> 0, sitemaps |-> <<>>, warnings |-> <<>>, i |-> 1,
   allUrls |-> <<>>, totalSitemapsProcessed |-> 0]

NormalizeRules(rules) ==
  [include |-> Coalesce(rules.include, <<>>),
   exclude |-> Coalesce(rules.exclude, <<>>),
   max_urls |-> Min(Coalesce(rules.max_urls, DEFAULT_MAX_URLS), MAX_LIMIT)]

\* mutant: the requested limit is not capped by rules.max_urls
EffectiveLimitUncapped(limit, normalizedRules) ==
  Coalesce(limit, normalizedRules.max_urls)

\* Math.min(limit ?? max_urls ?? DEFAULT_LIMIT, max_urls ?? MAX_LIMIT), the
\* normalized max_urls being a number always
EffectiveLimit(limit, normalizedRules) ==
  Min(Coalesce(limit, Coalesce({normalizedRules.max_urls}, DEFAULT_LIMIT)),
      Coalesce({normalizedRules.max_urls}, MAX_LIMIT))

\* mutant: only the type of a pattern is checked
BadPatternTypeOnly(patterns) ==
  \E k \in 1..Len(patterns) : patterns[k].t # "string"
\* typeof pattern !== "string" || pattern.length === 0, for some pattern
BadPattern(patterns) ==
  \E k \in 1..Len(patterns) :
    patterns[k].t # "string" \/ Len(patterns[k].chars) = 0

\* for (const entry of allUrls) if (!seenUrls.has(entry.url)) ...
RECURSIVE DedupeLoop(_, _, _, _)
DedupeLoop(allUrls, k, seenUrls, dedupedUrls) ==
  IF k > Len(allUrls) THEN dedupedUrls
  ELSE IF allUrls[k].url \in seenUrls
  THEN DedupeLoop(allUrls, k + 1, seenUrls, dedupedUrls)
  ELSE DedupeLoop(allUrls, k + 1, seenUrls \cup {allUrls[k].url},
                  Append(dedupedUrls, allUrls[k]))
\* mutant: the deduplication pass is skipped
DedupeSkipped(allUrls) == allUrls
\* mutant: of the entries with one url the last one is kept
DedupeKeepsLast(allUrls) ==
  LET Reverse(q) == [k \in 1..Len(q) |-> q[Len(q) + 1 - k]]
  IN Reverse(DedupeLoop(Reverse(allUrls), 1, {}, <<>>))
Dedupe(allUrls) == DedupeLoop(allUrls, 1, {}, <<>>)

\* dedupedUrls.slice(0, effectiveLimit)
ApplyFinalLimit(dedupedUrls, effectiveLimit) == JsSlice(dedupedUrls, 0, effectiveLimit)

\* `Result truncated to ${effectiveLimit} URLs. Total available: ${length}`
TruncationWarning(effectiveLimit, total) ==
  "Result truncated to " \o ToString(effectiveLimit)
    \o " URLs. Total available: " \o ToString(total)

BuildResponse(f) ==
  LET dedupedUrls == Dedupe(f.allUrls)
      finalUrls == ApplyFinalLimit(dedupedUrls, f.effectiveLimit)
      warnings == f.warnings \o
                  (IF Len(dedupedUrls) > f.effectiveLimit
                   THEN <<TruncationWarning(f.effectiveLimit, Len(dedupedUrls))>>
                   ELSE <<>>)
  IN createSuccessResponse(
       [seed_url |-> f.normalizedSeedUrl, frontier |-> finalUrls,
        total_urls |-> Len(finalUrls),
        sitemaps_processed |-> f.totalSitemapsProcessed,
        rules_applied |-> f.normalizedRules],
       [warnings |-> IF Len(warnings) > 0 THEN {warnings} ELSE {}])

\* mutant: the empty frontier is returned without a warning
EmptyFrontierUnwarned(f) ==
  createSuccessResponse(
    [seed_url |-> f.normalizedSeedUrl, frontier |-> <<>>, total_urls |-> 0,
     sitemaps_processed |-> 0, rules_applied |-> f.normalizedRules],
    [warnings |-> {<<>>}])
EmptyFrontierResponse(f) ==
  createSuccessResponse(
    [seed_url |-> f.normalizedSeedUrl, frontier |-> <<>>, total_urls |-> 0,
     sitemaps_processed |-> 0, rules_applied |-> f.normalizedRules],
    [warnings |-> {<<"No sitemaps found for this domain. Frontier is empty.">>}])

\* mutant: only the first discovered sitemap is collected
FrontierLoopOnlyFirst(f) ==
  f.i <= 1 /\ f.i <= Len(f.sitemaps) /\ ~(Len(f.allUrls) >= f.effectiveLimit)
\* mutant: the loop over the discovered sitemaps does not look at the limit
FrontierLoopIgnoresLimit(f) == f.i <= Len(f.sitemaps)
\* the loop over the discovered sitemaps may start another collection
FrontierLoopGoesOn(f) ==
  f.i <= Len(f.sitemaps) /\ ~(Len(f.allUrls) >= f.effectiveLimit)

buildCrawlFrontier ==
  /\ Running /\ Top.fn = "buildCrawlFrontier"
  /\ UNCHANGED <<op, args, dVisited, listVars, cursorVars, parked, httpVars, matchVars>>
  /\ Quiet
  /\ CASE Top.pc = "entry" ->
            /\ cVisited' = cVisited
            /\ IF Top.seedUrl = ""
               THEN Return(createErrorResponse("INVALID_INPUT",
                             "seed_url is required and must be a string"))
               ELSE IF NormalizeUrl(Top.seedUrl) = <<>>
               THEN Return(createErrorResponse("INVALID_INPUT",
                      "Invalid seed URL format. Please provide a valid HTTP or HTTPS URL."))
               ELSE LET nr == NormalizeRules(Top.rules) IN
                    IF BadPattern(nr.include)
                    THEN Return(createErrorResponse("INVALID_INPUT",
                                  "Include patterns must be non-empty strings"))
                    ELSE IF BadPattern(nr.exclude)
                    THEN Return(createErrorResponse("INVALID_INPUT",
                                  "Exclude patterns must be non-empty strings"))
                    ELSE Call(DiscoverFrame(NormalizeUrl(Top.seedUrl)[1]),
                              [Top EXCEPT !.pc = "discovered",
                                          !.normalizedSeedUrl = NormalizeUrl(Top.seedUrl)[1],
                                          !.normalizedRules = nr,
                                          !.effectiveLimit = EffectiveLimit(Top.limit, nr)])
       [] Top.pc = "discovered" ->
            IF ~ret.ok THEN Return(ret) /\ cVisited' = cVisited
            ELSE IF Len(ret.data.sitemaps) = 0
            THEN Return(EmptyFrontierResponse(Top)) /\ cVisited' = cVisited
            ELSE /\ cVisited' = {}
                 /\ Goto([Top EXCEPT !.pc = "loop", !.i = 1,
                                     !.sitemaps = ret.data.sitemaps,
                                     !.warnings = Coalesce(ret.meta.warnings, <<>>)])
       [] Top.pc = "loop" ->
            /\ cVisited' = cVisited
            /\ IF FrontierLoopGoesOn(Top)
               THEN Call(CollectFrame(Top.sitemaps[Top.i].url, Top.normalizedRules,
                                      Top.effectiveLimit - Len(Top.allUrls)),
                         [Top EXCEPT !.pc = "collected"])
               ELSE Return(BuildResponse(Top))
       [] Top.pc = "collected" ->
            /\ cVisited' = cVisited
            /\ Goto([Top EXCEPT !.pc = "loop", !.i = @ + 1,
                                !.allUrls = @ \o ret.urls,
                                !.totalSitemapsProcessed = @ + ret.sitemapsProcessed])

\* --------------------------------------------------------- concurrent calls
\* What one call of a tool owns: its arguments, the frames of its async
\* functions with their locals, the visited sets it allocated, the fetch it
\* awaits and what came of its fetches.  The tools keep nothing else: their
\* modules hold constants and the XML parser only.
Context ==
  [op |-> op, args |-> args, stack |-> stack, ret |-> ret, dVisited |-> dVisited,
   cVisited |-> cVisited, pending |-> pending, fetchLog |-> fetchLog,
   response |-> response]
\* mutant: the visited set of the frontier builder belongs to the module
VisitedShared(ctx) == cVisited
\* const visited = new Set<string>() inside buildCrawlFrontier: the set is
\* the call's own
VisitedOf(ctx) == ctx.cVisited
\* the event loop goes on with the call that holds ctx
Resume(ctx) ==
  /\ op' = ctx.op /\ args' = ctx.args /\ stack' = ctx.stack /\ ret' = ctx.ret
  /\ dVisited' = ctx.dVisited
  /\ cVisited' = VisitedOf(ctx)
  /\ pending' = ctx.pending /\ fetchLog' = ctx.fetchLog /\ response' = ctx.response
\* The running call awaits a fetch, or has returned: the event loop turns to
\* the other call, which starts or takes up the fetch it was awaiting.  The
\* upstream site is the same for both.
switch ==
  /\ parked # <<>> /\ parked[1].stack # <<>>
  /\ pending # <<>> \/ stack = <<>>
  /\ parked' = <<Context>>
  /\ Resume(parked[1])
  /\ UNCHANGED <<web, listVars, cursorVars, httpVars, matchVars>>

\* ------------------------------------------------------- transport/http.ts
\* the session ids randomUUID() hands out
SessionIds == {"session-" \o ToString(k) : k \in 1..MaxSessions}
Methods == {"GET", "POST", "DELETE", "PUT"}
Pathnames == {"/mcp", "/health", "/unknown"}
\* req.headers["mcp-session-id"]: absent ({}), empty, a session id, another string
SessionHeaders ==
  {{}, {""}, {"invalid-session-id"}} \cup {{sid} : sid \in SessionIds}
\* the statuses StreamableHTTPServerTransport answers with
SdkStatuses == {200, 400}

\* the JSON body { ok: false, error: { code, message }, meta } the transport writes
Envelope(code, message) ==
  [ok |-> FALSE, error |-> [code |-> code, message |-> message]]
\* res.statusCode and res.end(body): `envelope` is the body when the transport
\* wrote an error envelope, `by` the code that wrote the response
Reply(status, by, envelope) == [status |-> status, by |-> by, envelope |-> envelope]

\* if (sessionId): the header is there and not the empty string
HeaderGiven(header) == header # {} /\ header # {""}
\* mutant: every session id is taken as known
UnknownSessionAccepted(sessionId, known) == FALSE
\* const session = sessions.get(sessionId); if (!session)
UnknownSession(sessionId, known) == sessionId \notin known
\* mutant: every method but DELETE gets a new transport
CreatesSessionUnlessDelete(method) == method # "DELETE"
\* if (req.method === "POST"): a new server and transport are created
CreatesSession(method) == method = "POST"

\* { transport, server }: the pair a POST without a session id creates.
\* `sessionId` is transport.sessionId, {} while undefined; `keys` are the keys
\* of the sessions map whose value is this pair; `closed` says the transport
\* has closed
Pair(sessionId, keys, closed) == [sessionId |-> sessionId, keys |-> keys, closed |-> closed]
\* the pair sessions.get(sessionId) returns
PairAt(sessionId) == CHOOSE k \in DOMAIN transports : sessionId \in transports[k].keys
\* the pairs once the sessions map holds nothing under `keys`
Without(keys) == [k \in DOMAIN transports |-> [transports[k] EXCEPT !.keys = @ \ keys]]
\* mutant: onclose leaves the sessions map alone
NothingDeletedOnClose(transport) == {}
\* transport.onclose: if (transport.sessionId) sessions.delete(transport.sessionId)
DeletedOnClose(transport) == transport.sessionId
\* the transport of pair k closes
OnClose(k) ==
  /\ sessions' = sessions \ DeletedOnClose(transports[k])
  /\ transports' = [Without(DeletedOnClose(transports[k])) EXCEPT ![k].closed = TRUE]
\* onsessioninitialized of a new transport: sessions.set(sid, { transport, server })
OnSessionInitialized(sid) ==
  /\ sessions' = sessions \cup {sid}
  /\ transports' = Append(Without({sid}), Pair({sid}, {sid}, FALSE))
\* a new transport that initializes no session
Uninitialized ==
  /\ sessions' = sessions
  /\ transports' = Append(transports, Pair({}, {}, FALSE))

\* session.transport.handleRequest(req, res) of a known session: the
\* transport answers, and may close (it does on a DELETE), its onclose
\* deleting the session
HandledBySession(sessionId) ==
  \E status \in SdkStatuses, closes \in BOOLEAN :
    /\ res' = <<Reply(status, "transport", <<>>)>>
    /\ IF closes THEN OnClose(PairAt(sessionId))
       ELSE sessions' = sessions /\ transports' = transports
\* the try block of the POST branch: the new transport handles the request.
\* It initializes a session (onsessioninitialized does sessions.set), or it
\* answers without one, or connect / handleRequest throws and the catch
\* block answers 500 unless the response was ended already
\* randomUUID() gives an id it has not given before; the model creates
\* MaxSessions pairs at most
NewSessionId == "session-" \o ToString(Len(transports) + 1)
HandledByNewTransport ==
  /\ Len(transports) < MaxSessions
  /\ \/ /\ OnSessionInitialized(NewSessionId)
        /\ res' \in {<<Reply(200, "transport", <<>>)>>,
                     <<Reply(500, "handleMcpRequest",
                             <<Envelope("INTERNAL_ERROR", "Internal server error")>>)>>}
     \/ /\ Uninitialized
        /\ \E status \in SdkStatuses : res' = <<Reply(status, "transport", <<>>)>>
     \/ /\ Uninitialized
        /\ res' = <<Reply(500, "handleMcpRequest",
                          <<Envelope("INTERNAL_ERROR", "Internal server error")>>)>>

\* the request listener on /mcp
handleMcpRequest ==
  /\ \E method \in Methods, header \in SessionHeaders :
       /\ req' = <<[method |-> method, pathname |-> "/mcp", sessionId |-> header]>>
       /\ IF HeaderGiven(header)
          THEN LET sessionId == CHOOSE x \in header : TRUE IN
               IF UnknownSession(sessionId, sessions)
               THEN /\ res' = <<Reply(404, "handleMcpRequest",
                                      <<Envelope("INVALID_INPUT", "Session not found")>>)>>
                    /\ sessions' = sessions /\ transports' = transports
               ELSE HandledBySession(sessionId)
          ELSE IF method = "DELETE"
          THEN /\ res' = <<Reply(400, "handleMcpRequest",
                                 <<Envelope("INVALID_INPUT",
                                            "Session ID required for DELETE")>>)>>
               /\ sessions' = sessions /\ transports' = transports
          ELSE IF CreatesSession(method)
          THEN HandledByNewTransport
          ELSE /\ res' = <<Reply(400, "handleMcpRequest",
                                 <<Envelope("INVALID_INPUT", "Invalid request method")>>)>>
               /\ sessions' = sessions /\ transports' = transports
  /\ UNCHANGED <<crawlVars, listVars, cursorVars, parked, matchVars>>

\* the request listener on /health
handleHealthCheck ==
  /\ \E method \in Methods, header \in SessionHeaders :
       req' = <<[method |-> method, pathname |-> "/health", sessionId |-> header]>>
  /\ res' = <<Reply(200, "handleHealthCheck", <<>>)>>
  /\ UNCHANGED <<sessions, transports, crawlVars, listVars, cursorVars, parked, matchVars>>

\* the request listener on every other path
handleNotFound ==
  /\ \E method \in Methods, header \in SessionHeaders,
        pathname \in Pathnames \ {"/mcp", "/health"} :
       req' = <<[method |-> method, pathname |-> pathname, sessionId |-> header]>>
  /\ res' = <<Reply(404, "handleNotFound",
                    <<Envelope("NOT_FOUND", "Endpoint not found")>>)>>
  /\ UNCHANGED <<sessions, transports, crawlVars, listVars, cursorVars, parked, matchVars>>

\* ------------------------------------------------------------ the client
Seeds == {"", "   ", "example.com"}
\* <<limit, rules.max_urls>>, each optional
LimitArgs ==
  {<<{}, {}>>, <<{-1}, {}>>, <<{0}, {}>>, <<{1}, {}>>, <<{2}, {}>>,
   <<{2}, {1}>>, <<{MAX_LIMIT + 5}, {MAX_LIMIT + 1}>>}
NoRules == [include |-> {}, exclude |-> {}, max_urls |-> {}]

NoWeb == [u \in SitemapUrls |-> <<>>]

\* no paging client and no cursor in hand
ListIdle ==
  /\ lsDoc = <<>> /\ lsLimit = {} /\ lsArgs = <<>> /\ lsResp = <<>>
  /\ lsSeen = <<>> /\ lsCalls = 0 /\ lsWalk = FALSE
CursorIdle == payload = <<>> /\ token = <<>> /\ returned = <<>>
\* the transport has handled no request
HttpIdle == sessions = {} /\ req = <<>> /\ res = <<>> /\ transports = <<>>
\* matchesPattern has not been called on its own
MatchIdle == mpArgs = <<>> /\ mpResult = <<>>
\* no crawling call
CrawlIdle ==
  /\ op = "none" /\ args = <<>> /\ stack = <<>> /\ ret = <<>> /\ web = NoWeb
  /\ dVisited = {} /\ cVisited = {} /\ pending = <<>> /\ fetchLog = <<>>
  /\ response = <<>>
  /\ parked = <<>>

\* <<rules.include, rules.exclude>>, each optional
NoPatterns == <<{}, {}>>
\* a client calls one of the two crawling tools
InitCalling(limitArgs, patternArgs) ==
  /\ ListIdle /\ CursorIdle /\ HttpIdle /\ MatchIdle
  /\ parked = <<>>
  /\ op \in {"discover_sitemaps", "build_crawl_frontier"}
  /\ \E seed \in Seeds, la \in limitArgs, pa \in patternArgs :
       LET limit == la[1]
           rules == [include |-> pa[1], exclude |-> pa[2], max_urls |-> la[2]]
       IN
       /\ args = IF op = "discover_sitemaps"
                 THEN [url |-> seed, rules |-> NoRules, limit |-> {}]
                 ELSE [url |-> seed, rules |-> rules, limit |-> limit]
       /\ stack = IF op = "discover_sitemaps"
                  THEN <<DiscoverFrame(seed)>>
                  ELSE <<BuildFrame(seed, rules, limit)>>
  /\ ret = <<>>
  /\ web = NoWeb
  /\ dVisited = {}
  /\ cVisited = {}
  /\ pending = <<>>
  /\ fetchLog = <<>>
  /\ response = <<>>

InitWith(limitArgs) == InitCalling(limitArgs, {NoPatterns})
Init == InitWith(LimitArgs)

Next ==
  \/ checkSitemap
  \/ parseSitemapsFromRobotsTxt
  \/ discoverFromSitemapIndex
  \/ discoverSitemaps
  \/ collectUrlsFromSitemap
  \/ buildCrawlFrontier

Spec == Init /\ [][Next]_vars

Done == stack = <<>>

\* the event loop runs every continuation, and every fetch settles
\* termination is explored for calls without a limit, with a limit that cuts
\* the collection short, and with a negative limit
TerminationLimitArgs == {<<{}, {}>>, <<{1}, {}>>, <<{-1}, {}>>}
InitFair == InitWith(TerminationLimitArgs)
SpecFair == InitFair /\ [][Next]_vars /\ WF_vars(Next)

\* ------------------------------------------------- the cursor functions alone
CursorData(offset, sitemap_url) ==
  Obj(<<[k |-> OffsetKey, v |-> Integer(offset)]>>
      \o (IF sitemap_url = {} THEN <<>>
          ELSE <<[k |-> SitemapUrlKey, v |-> Str(CHOOSE u \in sitemap_url : TRUE)]>>))
CursorOffsets == (0..MaxOffset) \cup {100, 1000}
CursorUrls ==
  {<<"/", "s", ".", "x", "m", "l">>, <<"a", "\"", "b">>, <<"c", "\\", "d", " ", "?", "=", "1">>}
CursorPayloads ==
  {CursorData(o, u) : o \in CursorOffsets, u \in {{}} \cup {{x} : x \in CursorUrls}}
\* values a client can put into a token that are not cursor payloads
ForgedValues ==
  {Integer(5), Integer(0), Str(<<"a">>), Null, Bool(TRUE), Arr(<<>>), Obj(<<>>),
   Obj(<<[k |-> OffsetKey, v |-> Integer(-2)]>>),
   Obj(<<[k |-> OffsetKey, v |-> Num(15, 10)]>>),
   Obj(<<[k |-> OffsetKey, v |-> Str(<<"1">>)]>>),
   Obj(<<[k |-> OffsetKey, v |-> Str(<<"-", "2">>)]>>),
   Obj(<<[k |-> SitemapUrlKey, v |-> Str(<<"/", "s">>)]>>)}
\* strings that are no base64url of a JSON text
JunkTokens ==
  {<<>>, <<"i", "n", "v", "a", "l", "i", "d">>, <<"!", "!">>, <<"e", "y", "J">>,
   <<"N", "Q", "=", "=">>}
\* a client builds its token itself
ForgedTokens ==
  {Base64UrlEncode(Utf8Bytes(JsonStringify(v))) : v \in ForgedValues}
    \cup JunkTokens

InitCursor ==
  /\ CrawlIdle /\ ListIdle /\ HttpIdle /\ MatchIdle
  /\ returned = <<>>
  /\ \/ payload \in {<<p>> : p \in CursorPayloads} /\ token = <<>>
     \/ payload = <<>> /\ token \in {<<t>> : t \in ForgedTokens}
\* the server encodes the payload
Encode ==
  /\ payload # <<>> /\ token = <<>>
  /\ token' = <<encodeCursor(payload[1])>>
  /\ UNCHANGED <<payload, returned, crawlVars, listVars, parked, httpVars, matchVars>>
\* the server decodes the token a client sent
Decode ==
  /\ token # <<>> /\ returned = <<>>
  /\ returned' = <<decodeCursor(token[1])>>
  /\ UNCHANGED <<payload, token, crawlVars, listVars, parked, httpVars, matchVars>>
NextCursor == Encode \/ Decode
SpecCursor == InitCursor /\ [][NextCursor]_vars

\* --------------------------------------------- paging with list_sitemap_urls
\* documents with elements that have no loc
LocLessDocs ==
  {[index |-> FALSE, known |-> TRUE, items |-> <<<<"a">>, <<>>, <<"b">>>>],
   [index |-> FALSE, known |-> TRUE, items |-> <<<<>>>>],
   [index |-> TRUE, known |-> TRUE, items |-> <<"/a.xml", "", "/b.xml">>],
   [index |-> TRUE, known |-> TRUE, items |-> <<"">>]}
ListDocs ==
  {[index |-> FALSE, known |-> TRUE, items |-> b] : b \in SeqsUpTo(Pages, MaxListEntries)}
  \cup {[index |-> TRUE, known |-> TRUE, items |-> c] : c \in ChildLists}
  \cup LocLessDocs
ListLimits == {{}, {-1}, {0}, {1}, {2}, {3}, {LIST_MAX_LIMIT + 1}}
ListUrlArgs == {"", "nonsense", "/a.xml"}
InitList ==
  /\ CrawlIdle /\ CursorIdle /\ HttpIdle /\ MatchIdle
  /\ lsDoc \in {<<d>> : d \in ListDocs}
  /\ lsLimit \in ListLimits
  /\ lsArgs = <<>> /\ lsResp = <<>> /\ lsSeen = <<>> /\ lsCalls = 0
  /\ lsWalk = TRUE
\* the next_cursor of the last response, if it has one
ReturnedCursor ==
  IF lsResp # <<>> /\ lsResp[1].ok /\ lsResp[1].meta.pagination.next_cursor # <<>>
  THEN {lsResp[1].meta.pagination.next_cursor[1]}
  ELSE {}
\* the cursor of a client that follows: none at first, then the returned one
FollowingCursors == IF lsArgs = <<>> THEN {{}} ELSE {{c} : c \in ReturnedCursor}
ClientCursors == {{}} \cup {{c} : c \in ReturnedCursor \cup ForgedTokens}
\* one call of the tool, and the client taking note of the page; the client
\* is followed up to its first call that fails or leaves the cursor chain
listSitemapUrls ==
  /\ lsDoc # <<>> /\ lsWalk /\ lsCalls < MaxCalls
  /\ \E sitemapUrl \in ListUrlArgs, cursor \in ClientCursors :
     \E r \in IF ListReachesFetch(sitemapUrl, cursor)
              THEN ListFetchOutcomes(lsDoc[1]) ELSE {NoFetch} :
       LET resp == ListSitemapUrls(sitemapUrl, lsLimit, cursor, r)
           walks == /\ lsWalk /\ cursor \in FollowingCursors /\ resp.ok
                    /\ r.root # "html"
       IN /\ lsArgs' = <<[sitemap_url |-> sitemapUrl, cursor |-> cursor, fetch |-> r]>>
          /\ lsResp' = <<resp>>
          /\ lsWalk' = walks
          /\ lsCalls' = IF walks THEN lsCalls + 1 ELSE lsCalls
          /\ lsSeen' = IF walks THEN lsSeen \o resp.data.urls ELSE lsSeen
  /\ UNCHANGED <<lsDoc, lsLimit, crawlVars, cursorVars, parked, httpVars, matchVars>>
NextList == listSitemapUrls
SpecList == InitList /\ [][NextList]_vars

\* ------------------------------------- the three tools, rules being given
PatternA == Str(<<"a">>)
PatternB == Str(<<"b">>)
PatternUpperB == Str(<<"B">>)
PatternStar == Str(<<"*">>)
PatternQuery == Str(<<"a", "b", "?">>)
EmptyPattern == Str(<<>>)
\* include and exclude lists whose patterns are non-empty strings
GoodPatternArgs ==
  {<<{<<PatternA>>}, {}>>,
   <<{}, {<<PatternA>>}>>,
   <<{<<PatternStar>>}, {<<PatternB>>}>>,
   <<{<<PatternA, PatternB>>}, {<<PatternUpperB>>}>>,
   <<{<<PatternQuery>>}, {}>>,
   <<{<<>>}, {<<>>}>>}
\* lists holding an empty string or a value that is no string
BadPatternArgs ==
  {<<{<<EmptyPattern>>}, {}>>,
   <<{}, {<<EmptyPattern>>}>>,
   <<{<<PatternA, Integer(5)>>}, {}>>,
   <<{<<PatternA>>}, {<<Null>>}>>,
   <<{<<EmptyPattern>>}, {<<EmptyPattern>>}>>,
   <<{<<Integer(5)>>}, {<<PatternA>>}>>}
PatternArgs == {NoPatterns} \cup GoodPatternArgs \cup BadPatternArgs
CallLimitArgs == {<<{}, {}>>, <<{1}, {}>>}
InitCalls == InitCalling(CallLimitArgs, PatternArgs) \/ InitList
NextCalls == Next \/ NextList
SpecCalls == InitCalls /\ [][NextCalls]_vars

\* ------------------------------------------------- matchesPattern alone
UrlChars == {"a", "B", ".", "?"}
PatternChars == {"a", "b", "*", "?", "."}
InitMatch ==
  /\ CrawlIdle /\ ListIdle /\ CursorIdle /\ HttpIdle
  /\ mpArgs \in {<<[url |-> u, pattern |-> p]>> :
                   u \in SeqsUpTo(UrlChars, MaxChars), p \in SeqsUpTo(PatternChars, MaxChars)}
  /\ mpResult = <<>>
\* a caller asks whether the url matches the pattern
Match ==
  /\ mpArgs # <<>> /\ mpResult = <<>>
  /\ mpResult' = <<matchesPattern(mpArgs[1].url, mpArgs[1].pattern)>>
  /\ UNCHANGED <<mpArgs, crawlVars, listVars, cursorVars, parked, httpVars>>
NextMatch == Match
SpecMatch == InitMatch /\ [][NextMatch]_vars

\* ------------------------------------------- requests to the HTTP transport
InitHttp == CrawlIdle /\ ListIdle /\ CursorIdle /\ HttpIdle /\ MatchIdle
NextHttp == handleMcpRequest \/ handleHealthCheck \/ handleNotFound
SpecHttp == InitHttp /\ [][NextHttp]_vars

\* ------------------------------------------- two calls running concurrently
Leaf(items) == [index |-> FALSE, known |-> TRUE, items |-> items]
Index(items) == [index |-> TRUE, known |-> TRUE, items |-> items]
\* the upstream the two calls share: an index at the standard location with
\* its leaf, or two leaves that robots.txt may announce
Sites ==
  {[NoWeb EXCEPT !["/sitemap.xml"] = <<Index(<<"/a.xml">>)>>,
                 !["/a.xml"] = <<Leaf(<<<<"a">>, <<"b">>>>)>>],
   [NoWeb EXCEPT !["/a.xml"] = <<Leaf(<<<<"a">>>>)>>,
                 !["/b.xml"] = <<Leaf(<<<<"b">>, <<"a">>>>)>>]}
\* the calls a client makes: each tool with valid arguments, no limit
ConcurrentCalls ==
  {[op |-> "discover_sitemaps",
    args |-> [url |-> "example.com", rules |-> NoRules, limit |-> {}],
    frame |-> DiscoverFrame("example.com")],
   [op |-> "build_crawl_frontier",
    args |-> [url |-> "example.com", rules |-> NoRules, limit |-> {}],
    frame |-> BuildFrame("example.com", NoRules, {})],
   [op |-> "list_sitemap_urls",
    args |-> [url |-> "/a.xml", rules |-> NoRules, limit |-> {1}],
    frame |-> ListFrame("/a.xml", {1}, {})],
   [op |-> "list_sitemap_urls",
    args |-> [url |-> "nonsense", rules |-> NoRules, limit |-> {}],
    frame |-> ListFrame("nonsense", {}, {})]}
\* a call that has not run yet
Started(call) ==
  [op |-> call.op, args |-> call.args, stack |-> <<call.frame>>, ret |-> <<>>,
   dVisited |-> {}, cVisited |-> {}, pending |-> <<>>, fetchLog |-> <<>>,
   response |-> <<>>]
InitConcurrent ==
  /\ ListIdle /\ CursorIdle /\ HttpIdle /\ MatchIdle
  /\ web \in Sites
  /\ \E a, b \in ConcurrentCalls :
       /\ op = a.op /\ args = a.args /\ stack = <<a.frame>>
       /\ parked = <<Started(b)>>
  /\ ret = <<>> /\ dVisited = {} /\ cVisited = {} /\ pending = <<>>
  /\ fetchLog = <<>> /\ response = <<>>
NextConcurrent == Next \/ listSitemapUrlsCall \/ switch
SpecConcurrent == InitConcurrent /\ [][NextConcurrent]_vars

\* ------------------------------- a frontier build against a site that is known
\* the site as it is before the call: documents at up to MaxDocs of the URLs
\* that may host one, nothing at the others
SiteServing(S, f) == [u \in SitemapUrls |-> IF u \in S THEN <<f[u]>> ELSE <<>>]
KnownSites ==
  UNION {{SiteServing(S, f) : f \in [S -> FullDocs(TRUE) \cup FullDocs(FALSE)]} :
           S \in {T \in SUBSET Hosted : Cardinality(T) <= MaxDocs}}
ServingLimitArgs == {<<{}, {}>>, <<{1}, {}>>, <<{2}, {}>>}
InitServing ==
  /\ ListIdle /\ CursorIdle /\ HttpIdle /\ MatchIdle
  /\ parked = <<>>
  /\ op = "build_crawl_frontier"
  /\ web \in KnownSites
  /\ \E la \in ServingLimitArgs :
       LET rules == [include |-> {}, exclude |-> {}, max_urls |-> la[2]] IN
       /\ args = [url |-> "example.com", rules |-> rules, limit |-> la[1]]
       /\ stack = <<BuildFrame("example.com", rules, la[1])>>
  /\ ret = <<>> /\ dVisited = {} /\ cVisited = {} /\ pending = <<>>
  /\ fetchLog = <<>> /\ response = <<>>
SpecServing == InitServing /\ [][Next]_vars

\* ------------------------------------------------------ what the claims read
BuildOk == op = "build_crawl_frontier" /\ response # <<>> /\ response[1].ok
Frontier == response[1].data.frontier
ByDiscovery(e) == e.by # "collectUrlsFromSitemap"
ByCollection(e) == e.by = "collectUrlsFromSitemap"
IsProbe(e) == e.by \in {"checkSitemap", "discoverFromSitemapIndex"}
KnownDoc(u) == web[u] # <<>> /\ web[u][1].known
KnownIndex(u) == KnownDoc(u) /\ web[u][1].index
KnownLeaf(u) == KnownDoc(u) /\ ~web[u][1].index
Items(u) == web[u][1].items
Fetched(u, phase(_), st) ==
  \E k \in DOMAIN fetchLog :
    fetchLog[k].url = u /\ phase(fetchLog[k]) /\ fetchLog[k].st = st

\* the limit the specification states: min(limit if given else max_urls,
\* max_urls, 10000), max_urls defaulting to 5000
ClaimedLimit ==
  LET maxUrls == Coalesce(args.rules.max_urls, 5000)
  IN Min(Min(Coalesce(args.limit, maxUrls), maxUrls), 10000)

\* the list discoverSitemaps returned: the tool's response, or what the
\* frontier builder holds while it collects
Discovered ==
  IF op = "discover_sitemaps"
  THEN IF response # <<>> /\ response[1].ok THEN <<response[1].data.sitemaps>> ELSE <<>>
  ELSE IF stack # <<>> /\ stack[Len(stack)].pc \in {"loop", "collected"}
  THEN <<stack[Len(stack)].sitemaps>>
  ELSE <<>>

\* ------------------------------------------------------------------ claims

\* C1: in every successful build_crawl_frontier response the url values of
\* the frontier entries are pairwise distinct.
FrontierUrlsDistinct ==
  BuildOk =>
    \A i, j \in DOMAIN Frontier : i # j => Frontier[i].url # Frontier[j].url

\* C1 witness: a finished build that read a leaf listing a page twice and
\* another leaf listing the same page, the page being in the frontier.
FrontierUrlsDistinctWitness ==
  /\ BuildOk
  /\ \E u, v \in SitemapUrls :
       /\ u # v /\ KnownLeaf(u) /\ KnownLeaf(v)
       /\ Fetched(u, ByCollection, "ok") /\ Fetched(v, ByCollection, "ok")
       /\ Len(Items(u)) = 2 /\ Items(u)[1] = Items(u)[2]
       /\ Items(u)[1] \in Range(Items(v))
       /\ \E k \in DOMAIN Frontier : Frontier[k].url = Items(u)[1]

\* C2 as stated: the frontier length, which equals total_urls, is at most the
\* effective limit for every integer limit and max_urls.
FrontierWithinLimitAsStated ==
  BuildOk =>
    /\ response[1].data.total_urls = Len(Frontier)
    /\ Len(Frontier) <= ClaimedLimit

\* C2 amended: the frontier length, which equals total_urls, is at most the
\* effective limit when that limit is >= 0, and the frontier is empty when the
\* effective limit is negative.
FrontierWithinLimit ==
  BuildOk =>
    /\ response[1].data.total_urls = Len(Frontier)
    /\ Len(Frontier) <= Max(0, ClaimedLimit)

\* C2 witness: limit 2 capped to 1 by max_urls, a leaf with two different
\* pages was read, and the frontier holds one entry.
FrontierWithinLimitWitness ==
  /\ BuildOk /\ args.limit = {2} /\ ClaimedLimit = 1
  /\ Len(Frontier) = 1
  /\ \E u \in SitemapUrls :
       /\ KnownLeaf(u) /\ Fetched(u, ByCollection, "ok")
       /\ Len(Items(u)) = 2 /\ Items(u)[1] # Items(u)[2]

\* C3: discover_sitemaps and build_crawl_frontier terminate, also when
\* index documents reference each other cyclically or list themselves,
\* every fetch settling.
Terminates == <>Done

\* C3 witness: a finished build whose collection went through two index
\* documents that list each other, and one whose index lists itself.
TerminatesWitness ==
  /\ op = "build_crawl_frontier" /\ Done
  /\ \E u, v \in SitemapUrls :
       /\ u # v /\ KnownIndex(u) /\ KnownIndex(v)
       /\ Fetched(u, ByCollection, "ok") /\ Fetched(v, ByCollection, "ok")
       /\ v \in Range(Items(u)) /\ u \in Range(Items(v))
       /\ u \in Range(Items(u))

NoCandidateProbedTwice ==
  op = "discover_sitemaps" =>
    \A i, j \in DOMAIN fetchLog :
      (i < j /\ IsProbe(fetchLog[i]) /\ IsProbe(fetchLog[j])) =>
        fetchLog[i].url # fetchLog[j].url

\* C6: when a candidate probed by discoverSitemaps is a sitemap index, every
\* child location listed in it that responds successfully appears in the
\* returned sitemaps list (the claim adds: tagged sitemap_index).
IndexChildrenDiscovered ==
  Discovered # <<>> =>
    \A k \in DOMAIN Discovered[1] :
      LET u == Discovered[1][k].url IN
      (Discovered[1][k].type = "sitemap_index" /\ KnownIndex(u)) =>
        \A c \in Range(Items(u)) :
          (\E e \in Range(fetchLog) : e.url = c /\ e.st = "ok") =>
            \E m \in DOMAIN Discovered[1] : Discovered[1][m].url = c

\* the entries of the document the client pages through, the page size the
\* specification states for its limit, and the last response
ListEntries == Located(lsDoc[1])
ClaimedPageSize == IF lsLimit = {} THEN 100 ELSE Min(Max(1, Coalesce(lsLimit, 100)), 1000)
CeilDiv(n, d) == (n + d - 1) \div d
LastNextCursor == lsResp[1].meta.pagination.next_cursor
LastCursorArg == lsArgs[1].cursor
\* the offset the cursor of the last call carries
LastOffset ==
  IF LastCursorArg = {} \/ LastCursorArg = {<<>>} THEN Integer(0)
  ELSE GetProp(decodeCursor(CHOOSE c \in LastCursorArg : TRUE), OffsetKey)

\* C7: for an unchanged document with n entries and a fixed limit, the calls
\* of a client that starts without cursor and follows next_cursor return the
\* entries once each in document order, page by page, and next_cursor is
\* null exactly at call number ceil(n / pageSize) (call one when n = 0).
PagingCoversDocument ==
  (lsWalk /\ lsCalls >= 1) =>
    LET n == Len(ListEntries)
        last == Max(1, CeilDiv(n, ClaimedPageSize))
    IN /\ lsSeen = SubSeq(ListEntries, 1, Min(lsCalls * ClaimedPageSize, n))
       /\ lsCalls <= last
       /\ (LastNextCursor = <<>>) <=> (lsCalls = last)

\* C7 witness: a client has read a document of four entries in two pages of
\* two and was told there is no further page.
PagingCoversDocumentWitness ==
  /\ lsDoc # <<>> /\ lsWalk /\ lsCalls = 2 /\ lsLimit = {2}
  /\ Len(ListEntries) = 4 /\ ListEntries[1] # ListEntries[2]
  /\ lsSeen = ListEntries /\ LastNextCursor = <<>>

\* C8: a successful list_sitemap_urls call returns exactly the entries at
\* positions [offset, offset+pageSize) of the document, total_in_page is
\* their number, and next_cursor is non-null iff offset+pageSize is less
\* than the number of entries, and then decodes to {offset: offset+pageSize}
\* (read here for the calls whose cursor carries an integer offset).
PageIsTheSliceAtOffset ==
  (lsResp # <<>> /\ lsResp[1].ok /\ LastOffset.t = "number" /\ LastOffset.den = 1) =>
    LET n == Len(ListEntries)
        o == LastOffset.num
        lo == Max(o, 0)
        hi == Min(o + ClaimedPageSize, n)
    IN /\ lsResp[1].data.urls = IF lo < hi THEN SubSeq(ListEntries, lo + 1, hi) ELSE <<>>
       /\ lsResp[1].data.total_in_page = Len(lsResp[1].data.urls)
       /\ (LastNextCursor # <<>>) <=> (o + ClaimedPageSize < n)
       /\ LastNextCursor # <<>> =>
            decodeCursor(LastNextCursor[1]) = CursorData(o + ClaimedPageSize, {})

\* C9: decodeCursor(encodeCursor(x)) equals x for every cursor payload
\* x = {offset: integer >= 0}, with or without a sitemap_url field.
CursorRoundTrip ==
  (payload # <<>> /\ returned # <<>>) => returned[1] = payload[1]

\* C9 witness: a payload with a two-digit offset and a sitemap_url holding a
\* quote has been encoded, and the token has been decoded.
CursorRoundTripWitness ==
  /\ payload # <<>> /\ token # <<>> /\ returned # <<>>
  /\ payload[1] = CursorData(12, {<<"a", "\"", "b">>})
  /\ token[1] # JsonStringify(payload[1])

\* C10: decodeCursor returns null for every token that is not the encoding
\* of a cursor payload {offset: integer >= 0, optional sitemap_url}.
IsCursorPayload(v) ==
  /\ v.t = "object"
  /\ LET o == GetProp(v, OffsetKey)
         u == GetProp(v, SitemapUrlKey)
     IN /\ o.t = "number" /\ o.den = 1 /\ o.num >= 0
        /\ u.t \in {"undefined", "string"}
DecodeRejectsNonCursors ==
  returned # <<>> => (returned[1] = Null \/ IsCursorPayload(returned[1]))
\* the last list_sitemap_urls call and its envelope
LastCall == lsArgs[1]
LastResp == lsResp[1]
ListCalled == lsArgs # <<>> /\ lsResp # <<>>
IsError(resp, code) == ~resp.ok /\ resp.error.code = code
IsNatural(v) == v.t = "number" /\ v.den = 1 /\ v.num >= 0

\* C11: a list_sitemap_urls call that is given a cursor string and returns a
\* page has sliced the entry list at an offset that is an integer >= 0; a
\* cursor carrying a negative, missing or non-integer offset is never paged
\* from (the call fails with INVALID_INPUT "Invalid cursor format" instead).
CursorOffsetNaturalOrRejected ==
  (ListCalled /\ LastCursorArg # {} /\ LastResp.ok) => IsNatural(LastOffset)
\* the call of a crawling tool has returned
Responded == response # <<>>
\* the seed a crawling tool accepts
ValidSeed == args.url # "" /\ NormalizeUrl(args.url) # <<>>
IncludeMessage == "Include patterns must be non-empty strings"
ExcludeMessage == "Exclude patterns must be non-empty strings"
FailsWith(resp, code, message) ==
  IsError(resp, code) /\ resp.error.message = message

\* C12: in each of the three operations, when the result is an INVALID_INPUT
\* error (empty or invalid URL, invalid cursor, bad pattern list), the call
\* has issued no network fetch.
InvalidInputBeforeAnyFetch ==
  /\ (Responded /\ IsError(response[1], "INVALID_INPUT")) => fetchLog = <<>>
  /\ (ListCalled /\ IsError(LastResp, "INVALID_INPUT")) => LastCall.fetch = NoFetch

\* C12 witness: list_sitemap_urls was called with a valid sitemap URL and the
\* cursor "invalid", and answered INVALID_INPUT without fetching.
InvalidInputBeforeAnyFetchWitness ==
  /\ ListCalled /\ IsValidUrl(LastCall.sitemap_url)
  /\ LastCursorArg = {<<"i", "n", "v", "a", "l", "i", "d">>}
  /\ FailsWith(LastResp, "INVALID_INPUT", "Invalid cursor format")
  /\ LastCall.fetch = NoFetch

\* the list a rule carries, and whether it holds an empty string or a value
\* that is no string
PatternsOf(given) == IF given = {} THEN <<>> ELSE CHOOSE l \in given : TRUE
HoldsBadPattern(given) ==
  \E p \in Range(PatternsOf(given)) : p.t # "string" \/ p = Str(<<>>)

\* C13: build_crawl_frontier with a valid seed fails with INVALID_INPUT when
\* rules.include or rules.exclude holds an empty string or a non-string: with
\* the "Include patterns" message when the include list is bad, with the
\* "Exclude patterns" message when only the exclude list is bad.
BadPatternsRejected ==
  (op = "build_crawl_frontier" /\ Responded /\ ValidSeed) =>
    /\ HoldsBadPattern(args.rules.include) =>
         FailsWith(response[1], "INVALID_INPUT", IncludeMessage)
    /\ (~HoldsBadPattern(args.rules.include) /\ HoldsBadPattern(args.rules.exclude)) =>
         FailsWith(response[1], "INVALID_INPUT", ExcludeMessage)

\* C13 witness: a build with a valid seed, a good include list and the
\* exclude list [null] has failed with the "Exclude patterns" message.
BadPatternsRejectedWitness ==
  /\ op = "build_crawl_frontier" /\ Responded /\ ValidSeed
  /\ args.rules.include = {<<PatternA>>} /\ args.rules.exclude = {<<Null>>}
  /\ FailsWith(response[1], "INVALID_INPUT", ExcludeMessage)
\* a probe of checkSitemap found a document
ByCheckSitemap(e) == e.by = "checkSitemap"
SomeProbeSucceeded == \E u \in SitemapUrls : Fetched(u, ByCheckSitemap, "ok")
\* meta.warnings is a list with at least one entry
HasWarnings(resp) ==
  resp.meta.warnings # {} /\ (CHOOSE w \in resp.meta.warnings : TRUE) # <<>>

\* C14: when discovery finds no sitemap for a valid seed (no probe of the call
\* succeeds), build_crawl_frontier returns ok: true with an empty frontier,
\* total_urls = 0, sitemaps_processed = 0 and a non-empty warnings list.
NoSitemapsGivesEmptyFrontier ==
  (op = "build_crawl_frontier" /\ Responded /\ ValidSeed /\ ~SomeProbeSucceeded) =>
    /\ response[1].ok
    /\ response[1].data.frontier = <<>>
    /\ response[1].data.total_urls = 0
    /\ response[1].data.sitemaps_processed = 0
    /\ HasWarnings(response[1])

\* C14 witness: a build has returned after robots.txt answered and listed
\* /a.xml, whose probe failed like every other probe of the call.
NoSitemapsGivesEmptyFrontierWitness ==
  /\ op = "build_crawl_frontier" /\ Responded /\ ValidSeed /\ ~SomeProbeSucceeded
  /\ \E e \in Range(fetchLog) : e.url = robotsTxtUrl /\ e.st = "ok"
  /\ Fetched("/a.xml", ByCheckSitemap, "failed")
  /\ response[1].ok /\ response[1].data.frontier = <<>>
\* the call gave neither a limit nor rules.max_urls
NoLimitGiven == args.limit = {} /\ args.rules.max_urls = {}
\* the collection phase asked for u, whatever came of it
Collected(u) == \E e \in Range(fetchLog) : e.url = u /\ ByCollection(e)
SourcesOf(frontier) == {frontier[k].source_sitemap : k \in DOMAIN frontier}

\* C15: with a valid seed and valid rules build_crawl_frontier returns
\* ok: true whatever each probe and each document fetch does; a document
\* whose fetch failed is the source of no frontier entry, and every
\* discovered sitemap is still asked for while the limit is not reached
\* (read here for the calls that give no limit).
BuildSurvivesFailedFetches ==
  (op = "build_crawl_frontier" /\ Responded /\ ValidSeed
     /\ ~HoldsBadPattern(args.rules.include) /\ ~HoldsBadPattern(args.rules.exclude)) =>
    /\ response[1].ok
    /\ \A u \in SitemapUrls :
         Fetched(u, ByCollection, "failed") => u \notin SourcesOf(Frontier)
    /\ NoLimitGiven =>
         \A u \in SitemapUrls : Fetched(u, ByCheckSitemap, "ok") => Collected(u)

\* C15 witness: two sitemaps were discovered; the collection fetch of one
\* failed and the other one, fetched after it, gave the frontier its entries.
BuildSurvivesFailedFetchesWitness ==
  /\ BuildOk /\ NoLimitGiven
  /\ \E i, j \in DOMAIN fetchLog :
       /\ i < j
       /\ ByCollection(fetchLog[i]) /\ fetchLog[i].st = "failed"
       /\ ByCollection(fetchLog[j]) /\ fetchLog[j].st = "ok"
       /\ Fetched(fetchLog[i].url, ByCheckSitemap, "ok")
       /\ Frontier # <<>>
       /\ SourcesOf(Frontier) = {fetchLog[j].url}
\* what the fetch of the last list_sitemap_urls call came to
LastFetch == LastCall.fetch

\* C16: a list_sitemap_urls call whose fetch fails returns an error envelope:
\* UPSTREAM_ERROR when the response is not 2xx, TIMEOUT when the fetch was
\* aborted by the timeout.
ListFetchFailureCodes ==
  ListCalled =>
    /\ LastFetch.st \in {"notok", "abort", "throw"} => ~LastResp.ok
    /\ LastFetch.st = "notok" => IsError(LastResp, "UPSTREAM_ERROR")
    /\ LastFetch.st = "abort" => IsError(LastResp, "TIMEOUT")

\* C17: a list_sitemap_urls call whose fetch delivers a body that is no
\* sitemap and no sitemap index (the parser gives up on it, or it has
\* neither container) returns an error envelope with code PARSE_ERROR.
UnreadableBodyIsParseError ==
  (ListCalled /\ (LastFetch.st = "malformed"
                    \/ (LastFetch.st = "ok" /\ LastFetch.root = "html"))) =>
    IsError(LastResp, "PARSE_ERROR")
\* the glob of the specification: * matches any run of characters, every
\* other character itself, letters without regard to case, on the whole URL
RECURSIVE GlobMatches(_, _)
GlobMatches(url, pattern) ==
  IF pattern = <<>> THEN url = <<>>
  ELSE IF Head(pattern) = "*"
  THEN \E k \in 0..Len(url) : GlobMatches(SubSeq(url, k + 1, Len(url)), Tail(pattern))
  ELSE /\ url # <<>>
       /\ Fold(Head(url)) = Fold(Head(pattern))
       /\ GlobMatches(Tail(url), Tail(pattern))
MatchesSome(url, given) ==
  \E p \in Range(PatternsOf(given)) : GlobMatches(url, p.chars)

\* C18: every URL of a returned frontier matches at least one include pattern
\* when the include list is non-empty and matches no exclude pattern when the
\* exclude list is non-empty; a URL matching both is not in the frontier.
FrontierPassesFilters ==
  BuildOk =>
    \A k \in DOMAIN Frontier :
      /\ PatternsOf(args.rules.include) # <<>> =>
           MatchesSome(Frontier[k].url, args.rules.include)
      /\ PatternsOf(args.rules.exclude) # <<>> =>
           ~MatchesSome(Frontier[k].url, args.rules.exclude)
\* the sitemaps discovery found, in the order it found them
ProbesThatSucceeded ==
  SelectSeq(fetchLog, LAMBDA e : ByCheckSitemap(e) /\ e.st = "ok")
DiscoveryOrder == [k \in DOMAIN ProbesThatSucceeded |-> ProbesThatSucceeded[k].url]
EntriesOf(u) == [k \in DOMAIN Items(u) |-> [url |-> Items(u)[k], source_sitemap |-> u]]
\* the depth-first traversal of the documents the collection read: `todo` are
\* the URLs still to visit, an index putting its children in front of them
RECURSIVE Traversal(_, _, _)
Traversal(todo, seen, acc) ==
  IF todo = <<>> THEN acc
  ELSE LET u == Head(todo) IN
       IF u \in seen THEN Traversal(Tail(todo), seen, acc)
       ELSE IF ~Fetched(u, ByCollection, "ok")
       THEN Traversal(Tail(todo), seen \cup {u}, acc)
       ELSE IF KnownIndex(u)
       THEN Traversal(Items(u) \o Tail(todo), seen \cup {u}, acc)
       ELSE Traversal(Tail(todo), seen \cup {u}, acc \o EntriesOf(u))
\* of a list of entries, the first entry of each url
RECURSIVE FirstSeen(_, _)
FirstSeen(entries, acc) ==
  IF entries = <<>> THEN acc
  ELSE FirstSeen(Tail(entries),
                 IF \E k \in DOMAIN acc : acc[k].url = Head(entries).url
                 THEN acc ELSE Append(acc, Head(entries)))
FirstSeenOrder == FirstSeen(Traversal(DiscoveryOrder, {}, <<>>), <<>>)
PlaceIn(entries, e) == CHOOSE k \in DOMAIN entries : entries[k] = e

ReadByCollection == {u \in SitemapUrls : Fetched(u, ByCollection, "ok")}

\* C20: sitemaps_processed is the number of distinct sitemap documents, index
\* or leaf, whose fetch succeeded during the frontier traversal; a failed
\* fetch and a document skipped as already visited add nothing, and the
\* count of a processed child is kept when a sibling fails.
ProcessedCountsSuccessfulFetches ==
  BuildOk => response[1].data.sitemaps_processed = Cardinality(ReadByCollection)

\* C20 witness: an index listing two children was collected; the fetch of
\* the first child failed, the second was read, and the count is 2.
ProcessedCountsSuccessfulFetchesWitness ==
  /\ BuildOk /\ response[1].data.sitemaps_processed = 2
  /\ \E u \in ReadByCollection :
       /\ KnownIndex(u) /\ Len(Items(u)) = 2 /\ Items(u)[1] # Items(u)[2]
       /\ Fetched(Items(u)[1], ByCollection, "failed")
       /\ Fetched(Items(u)[2], ByCollection, "ok")
\* the frontier traversal of a build call: the loop over the discovered
\* sitemaps and the collections it starts
InTraversal ==
  /\ op = "build_crawl_frontier" /\ stack # <<>>
  /\ stack[Len(stack)].pc \in {"loop", "collected"}
\* the URLs collected so far, before deduplication: those the build call and
\* the running collections hold, and those a collection has just returned
RECURSIVE HeldUrls(_)
HeldUrls(frames) ==
  IF frames = <<>> THEN 0
  ELSE (IF Head(frames).fn = "buildCrawlFrontier" THEN Len(Head(frames).allUrls)
        ELSE IF Head(frames).fn = "collectUrlsFromSitemap" THEN Len(Head(frames).urls)
        ELSE 0) + HeldUrls(Tail(frames))
ReturnedUrls ==
  IF Top.fn \in {"buildCrawlFrontier", "collectUrlsFromSitemap"}
     /\ Top.pc \in {"collected", "child_ret"}
  THEN Len(ret.urls) ELSE 0
CollectedSoFar == HeldUrls(stack) + ReturnedUrls
\* the step passes a sitemap URL to fetch for the collection
IssuesCollectionFetch ==
  /\ Len(fetchLog') > Len(fetchLog)
  /\ ByCollection(fetchLog'[Len(fetchLog')])
\* with the limit reached the step fetches nothing, the loop over the
\* discovered sitemaps returns, and what is returned is a success
StopsAtLimit ==
  (InTraversal /\ CollectedSoFar >= ClaimedLimit) =>
    /\ ~IssuesCollectionFetch
    /\ (Top.fn = "buildCrawlFrontier" /\ Top.pc = "loop") => response' # <<>>
    /\ response' # <<>> => response'[1].ok

\* C21 as stated: during the frontier traversal the number of collected
\* (pre-deduplication) URLs never exceeds the effective limit, no sitemap
\* document is fetched once that number has reached the limit, and reaching
\* the limit ends the call with ok: true.
TraversalWithinLimitAsStated ==
  /\ [](InTraversal => CollectedSoFar <= ClaimedLimit)
  /\ [][StopsAtLimit]_vars

\* C21 amended: during the frontier traversal the number of collected
\* (pre-deduplication) URLs never exceeds the effective limit when that limit
\* is >= 0 and stays 0 when it is negative; no sitemap document is fetched
\* once that number has reached the limit, and reaching the limit ends the
\* call with ok: true.
TraversalWithinLimit ==
  /\ [](InTraversal => CollectedSoFar <= Max(0, ClaimedLimit))
  /\ [][StopsAtLimit]_vars

\* C21 witness: a build with effective limit 1 ended ok: true with one URL
\* taken from a leaf that lists two, and a discovered sitemap was never
\* fetched by the collection.
TraversalWithinLimitWitness ==
  /\ BuildOk /\ ClaimedLimit = 1 /\ Len(Frontier) = 1
  /\ \E u, v \in SitemapUrls :
       /\ KnownLeaf(u) /\ Fetched(u, ByCollection, "ok")
       /\ Len(Items(u)) = 2 /\ Items(u)[1] # Items(u)[2]
       /\ Fetched(v, ByDiscovery, "ok")
       /\ \A k \in DOMAIN fetchLog : ~(fetchLog[k].url = v /\ ByCollection(fetchLog[k]))
\* the filter policy of the specification applied to a URL
PassesGlobs(url) ==
  /\ PatternsOf(args.rules.include) # <<>> => MatchesSome(url, args.rules.include)
  /\ PatternsOf(args.rules.exclude) # <<>> => ~MatchesSome(url, args.rules.exclude)
\* the distinct filter-passing URLs of the leaves the collection read: all of
\* them are available in the reachable sitemaps
AvailableUrls ==
  {p \in UNION {Range(Items(u)) : u \in {v \in ReadByCollection : KnownLeaf(v)}} :
     PassesGlobs(p)}
\* the warnings of a success envelope, none when the key holds undefined
WarningsOf(resp) == Coalesce(resp.meta.warnings, <<>>)

\* C22: when more distinct filter-passing URLs are available in the reachable
\* sitemaps than the effective limit (a limit >= 0), the frontier holds as
\* many URLs as the limit and the response carries a warning stating the
\* truncated count and the total available before truncation.
TruncationIsWarned ==
  (BuildOk /\ ClaimedLimit >= 0 /\ Cardinality(AvailableUrls) > ClaimedLimit) =>
    /\ Len(Frontier) = ClaimedLimit
    /\ \E total \in (ClaimedLimit + 1)..(MaxDocs * MaxEntries) :
         TruncationWarning(ClaimedLimit, total) \in Range(WarningsOf(response[1]))
\* a discover_sitemaps call answered with a success envelope
DiscoverOk == op = "discover_sitemaps" /\ Responded /\ response[1].ok
\* the GET of /robots.txt was answered 2xx and its body was read
RobotsTxtFetched ==
  \E e \in Range(fetchLog) :
    e.url = robotsTxtUrl /\ e.by = "parseSitemapsFromRobotsTxt" /\ e.st = "ok"

ListedUrls ==
  {response[1].data.sitemaps[k].url : k \in DOMAIN response[1].data.sitemaps}
\* the locations discoverSitemaps probes for every domain
FixedLocations == {standardSitemapUrl} \cup Range(alternativeLocations)

\* C24: for every valid seed discover_sitemaps returns ok: true whatever the
\* outcome of each probe; a candidate whose probe failed is absent from the
\* sitemaps list, the remaining candidates are still probed, and the warning
\* "No sitemaps found for this domain" is attached exactly when the list is
\* empty.
DiscoverSurvivesFailedProbes ==
  (op = "discover_sitemaps" /\ Responded /\ ValidSeed) =>
    /\ response[1].ok
    /\ \A u \in SitemapUrls : Fetched(u, ByCheckSitemap, "failed") => u \notin ListedUrls
    /\ \A u \in FixedLocations :
         Fetched(u, ByCheckSitemap, "ok") \/ Fetched(u, ByCheckSitemap, "failed")
    /\ ("No sitemaps found for this domain" \in Range(WarningsOf(response[1])))
         <=> (response[1].data.sitemaps = <<>>)
\* meta.warnings of the envelope is a list (of strings), not undefined
WarningsIsAList(resp) == resp.meta.warnings # {}

\* C25: every success envelope of discover_sitemaps, list_sitemap_urls and
\* build_crawl_frontier carries meta.warnings as a list of strings, the
\* empty list when there is nothing to warn about.
SuccessCarriesWarningsList ==
  /\ (Responded /\ response[1].ok) => WarningsIsAList(response[1])
  /\ (ListCalled /\ LastResp.ok) => WarningsIsAList(LastResp)
\* the fetches the collection phase issued, in order
CollectionFetches == SelectSeq(fetchLog, ByCollection)

\* C30: during the collection phase of one build_crawl_frontier call each
\* sitemap URL is passed to fetch at most once, a URL whose fetch failed and
\* a URL that is both in the discovered list and a child of an index
\* included; every URL fetched is in the visited set from the moment the
\* fetch is issued.
CollectionFetchesOnce ==
  op = "build_crawl_frontier" =>
    /\ \A i, j \in DOMAIN CollectionFetches :
         i # j => CollectionFetches[i].url # CollectionFetches[j].url
    /\ \A k \in DOMAIN CollectionFetches : CollectionFetches[k].url \in cVisited

\* C30 witness: a finished build whose discovery found an index and, through
\* robots.txt, the child the index lists; the collection read the index,
\* the fetch of the child failed, and the child came up again from the
\* discovered list.
CollectionFetchesOnceWitness ==
  /\ op = "build_crawl_frontier" /\ Done
  /\ \E u \in SitemapUrls, c \in ExtraSitemaps :
       /\ KnownIndex(u) /\ Fetched(u, ByCollection, "ok")
       /\ c \in Range(Items(u))
       /\ Fetched(c, ByCheckSitemap, "ok")
       /\ Fetched(c, ByCollection, "failed")
\* types.ts: the ErrorCode union
ErrorCodes ==
  {"INVALID_INPUT", "UPSTREAM_ERROR", "RATE_LIMITED", "TIMEOUT", "PARSE_ERROR",
   "INTERNAL_ERROR"}
\* the error envelope the transport wrote into its last response, if any
WrittenEnvelope == IF res = <<>> THEN <<>> ELSE res[1].envelope

\* C26: every error envelope the server emits, from a tool call or from the
\* HTTP transport, has error.code among the six codes of ErrorCode.
ErrorCodesAreDeclared ==
  /\ (Responded /\ ~response[1].ok) => response[1].error.code \in ErrorCodes
  /\ (ListCalled /\ ~LastResp.ok) => LastResp.error.code \in ErrorCodes
  /\ WrittenEnvelope # <<>> => WrittenEnvelope[1].error.code \in ErrorCodes

\* the step handles a request to pathname that carries the header value
Handles(pathname, header) ==
  req' # <<>> /\ req'[1].pathname = pathname /\ req'[1].sessionId = header
\* the response of the step is the error envelope with this status and message
Answers(status, message) ==
  /\ res' # <<>> /\ res'[1].status = status /\ res'[1].envelope # <<>>
  /\ ~res'[1].envelope[1].ok
  /\ res'[1].envelope[1].error.message = message

\* C28 as stated: a request to /mcp carrying an mcp-session-id that is not in
\* the session table is answered 404 "Session not found" whatever its method,
\* and the session table is left unchanged.
UnknownSessionIsNotFoundAsStated ==
  [][\A sid \in {"", "invalid-session-id"} \cup SessionIds :
       (Handles("/mcp", {sid}) /\ sid \notin sessions) =>
         (Answers(404, "Session not found") /\ sessions' = sessions)]_vars

\* C28 amended: a request to /mcp carrying a non-empty mcp-session-id that is
\* not in the session table is answered 404 "Session not found" whatever its
\* method, and the session table is left unchanged.
UnknownSessionIsNotFound ==
  [][\A sid \in {"invalid-session-id"} \cup SessionIds :
       (Handles("/mcp", {sid}) /\ sid \notin sessions) =>
         (Answers(404, "Session not found") /\ sessions' = sessions)]_vars

\* C28 witness: with a session in the table, a DELETE to /mcp carrying the id
\* of a session that is not in the table was answered 404.
UnknownSessionIsNotFoundWitness ==
  /\ sessions # {} /\ req # <<>> /\ res # <<>>
  /\ req[1].pathname = "/mcp" /\ req[1].method = "DELETE"
  /\ \E sid \in SessionIds \ sessions : req[1].sessionId = {sid}
  /\ res[1].status = 404

\* C29: a request to /mcp without an mcp-session-id creates a session only
\* when its method is POST; DELETE is answered 400 "Session ID required for
\* DELETE" and every other method 400 "Invalid request method", both leaving
\* the session table unchanged.
OnlyPostCreatesSession ==
  [][Handles("/mcp", {}) =>
       /\ sessions' # sessions => req'[1].method = "POST"
       /\ req'[1].method = "DELETE" =>
            (Answers(400, "Session ID required for DELETE") /\ sessions' = sessions)
       /\ req'[1].method \notin {"POST", "DELETE"} =>
            (Answers(400, "Invalid request method") /\ sessions' = sessions)]_vars

\* C29 witness: a POST to /mcp without the header has put a second session
\* into the table.
OnlyPostCreatesSessionWitness ==
  /\ Cardinality(sessions) = 2 /\ req # <<>> /\ res # <<>>
  /\ req[1].pathname = "/mcp" /\ req[1].method = "POST" /\ req[1].sessionId = {}
  /\ res[1].status = 200 /\ res[1].by = "transport"

\* the running call has returned
Returned == stack = <<>> /\ response # <<>>
\* what a discover_sitemaps call run alone returns for the responses this call
\* got: the documents its probes read, in the order of the probes
AloneDiscovered(sitemaps) ==
  [k \in DOMAIN sitemaps |-> sitemaps[k].url] = DiscoveryOrder
\* the outcomes of fetchSitemap that agree with what the call's fetch did
OwnListOutcomes ==
  IF fetchLog = <<>> THEN {NoFetch}
  ELSE {r \in SitemapFetchOutcomes(args.url) : (r.st = "ok") = (fetchLog[1].st = "ok")}
\* each call that has returned returned what the call run alone returns for
\* the upstream responses it got, and asked for every document itself
ResultAsAlone ==
  Returned =>
    /\ op = "discover_sitemaps" =>
          response[1].ok /\ AloneDiscovered(response[1].data.sitemaps)
    /\ op = "build_crawl_frontier" =>
          /\ response[1].ok
          /\ Frontier = FirstSeenOrder
          /\ response[1].data.sitemaps_processed = Cardinality(ReadByCollection)
          /\ \A u \in Range(DiscoveryOrder) : Collected(u)
    /\ op = "list_sitemap_urls" =>
          /\ Len(fetchLog) <= 1
          /\ \E r \in OwnListOutcomes :
               response[1] = ListSitemapUrls(args.url, args.limit, {}, r)
\* when the event loop turns to the other call, that call goes on with
\* exactly what it held when it was suspended, and the call that was running
\* is put aside with what it holds; no other step touches the call put aside
HandsOver ==
  parked' # parked => (parked' = <<Context>> /\ Context' = parked[1])

\* C27: no state is shared between client calls: for any interleaving of
\* concurrent discover_sitemaps, list_sitemap_urls and build_crawl_frontier
\* calls at their fetch suspension points, each call's result equals the
\* result it produces when run alone against the same upstream responses, and
\* a URL visited in one call is not treated as visited in another.
NoStateSharedBetweenCalls == [](ResultAsAlone) /\ [][HandsOver]_vars

\* C27 witness: a frontier build has returned a frontier that holds a page of
\* a leaf it fetched itself, after the other call, a frontier build too and
\* not yet returned, had put that leaf into its own visited set.
NoStateSharedBetweenCallsWitness ==
  /\ BuildOk /\ Returned
  /\ parked # <<>> /\ parked[1].op = "build_crawl_frontier" /\ parked[1].stack # <<>>
  /\ \E u \in SitemapUrls :
       /\ u \in parked[1].cVisited
       /\ KnownLeaf(u) /\ Fetched(u, ByCollection, "ok")
       /\ \E k \in DOMAIN Frontier : Frontier[k].source_sitemap = u
       /\ \E i, j \in DOMAIN fetchLog, n \in DOMAIN parked[1].fetchLog :
            /\ fetchLog[j].url = u /\ ByCollection(fetchLog[j]) /\ i < j
            /\ parked[1].fetchLog[n].url = u /\ ByCollection(parked[1].fetchLog[n])

\* the sitemap URLs reachable from `todo` through the index documents
RECURSIVE ReachableDocs(_, _)
ReachableDocs(todo, seen) ==
  IF todo = {} THEN seen
  ELSE LET u == CHOOSE x \in todo : TRUE IN
       IF u \in seen THEN ReachableDocs(todo \ {u}, seen)
       ELSE ReachableDocs((todo \ {u}) \cup (IF KnownIndex(u) THEN Range(Items(u)) ELSE {}),
                          seen \cup {u})
ReachableFromDiscovered == ReachableDocs(Range(DiscoveryOrder), {})
\* the distinct page URLs of the leaf sitemaps reachable from the discovered
\* sitemaps; without patterns every URL passes the filters
DistinctReachable ==
  UNION {Range(Items(u)) : u \in {v \in ReachableFromDiscovered : KnownLeaf(v)}}
\* every URL at which the site serves a document answered each time it was
\* asked, and every reachable sitemap URL serves a document
EveryFetchSucceeds ==
  /\ \A u \in ReachableFromDiscovered : KnownDoc(u)
  /\ \A e \in Range(fetchLog) :
       (e.url \in SitemapUrls /\ web[e.url] # <<>>) => e.st = "ok"

\* C31: when every fetch succeeds, the frontier returned by
\* build_crawl_frontier has exactly min(L, D) entries, L >= 0 being the
\* effective limit and D the number of distinct filter-passing URLs in the
\* leaf sitemaps reachable from the discovered sitemaps.
FrontierFilledToLimit ==
  (BuildOk /\ ClaimedLimit >= 0 /\ EveryFetchSucceeds) =>
    Len(Frontier) = Min(ClaimedLimit, Cardinality(DistinctReachable))

\* C32: matchesPattern(url, pattern) is true iff the whole url matches the
\* pattern read as a glob in which each * matches any run of characters and
\* every other pattern character, regex metacharacters such as . and ?
\* included, matches only itself, compared case-insensitively.
MatchesAsGlob ==
  mpResult # <<>> => mpResult[1] = GlobMatches(mpArgs[1].url, mpArgs[1].pattern)

\* discoverSitemaps has gone through its three steps and is about to return
DiscoverAboutToReturn ==
  /\ stack # <<>> /\ Top.fn = "discoverSitemaps"
  /\ Top.pc = "alt_loop" /\ Top.i > Len(Top.alt)
\* the fetches discoverSitemaps asked for itself: its probes and robots.txt,
\* without the probes discoverFromSitemapIndex made of index children
IsTopLevel(e) ==
  \/ e.by = "parseSitemapsFromRobotsTxt"
  \/ e.by = "checkSitemap" /\ e.from # "sitemap_index"
TopLevelFetches == SelectSeq(fetchLog, IsTopLevel)
UrlsOf(entries) == [k \in DOMAIN entries |-> entries[k].url]
TaggedRobots(e) == e.from = "robots_txt"
TaggedStandard(e) == e.from = "standard_location"
\* `probes` are the URLs of `listed` in their order, a URL left out being in
\* the visited set
RECURSIVE ProbedInOrder(_, _, _)
ProbedInOrder(probes, listed, visited) ==
  IF listed = <<>> THEN probes = <<>>
  ELSE IF probes # <<>> /\ Head(probes) = Head(listed)
  THEN ProbedInOrder(Tail(probes), Tail(listed), visited)
  ELSE Head(listed) \in visited /\ ProbedInOrder(probes, Tail(listed), visited)
\* the URL of log entry p was in the visited set when the entry was logged: a
\* probe of discoverSitemaps had found it, or discoverFromSitemapIndex had
\* entered it
VisitedBefore(p) ==
  \E q \in 1..(p - 1) :
    /\ fetchLog[q].url = fetchLog[p].url
    /\ \/ fetchLog[q].by = "checkSitemap" /\ IsTopLevel(fetchLog[q]) /\ fetchLog[q].st = "ok"
       \/ fetchLog[q].by = "discoverFromSitemapIndex"
\* the top-level fetches after the first two: robots.txt's sitemaps, then the
\* alternative locations
PhasesInOrder(rest, listed, visited) ==
  /\ rest = SelectSeq(rest, TaggedRobots) \o SelectSeq(rest, TaggedStandard)
  /\ ProbedInOrder(UrlsOf(SelectSeq(rest, TaggedRobots)), listed, visited)
  /\ ProbedInOrder(UrlsOf(SelectSeq(rest, TaggedStandard)), alternativeLocations, visited)
StartsAtStandardLocation(t) ==
  /\ Len(t) >= 2
  /\ t[1].url = standardSitemapUrl /\ t[1].by = "checkSitemap"
  /\ t[1].from = "standard_location"
  /\ t[2].url = robotsTxtUrl /\ t[2].by = "parseSitemapsFromRobotsTxt"

\* C33: discover_sitemaps probes /sitemap.xml first, then robots.txt and the
\* sitemaps it lists in file order, then /sitemap_index.xml, /sitemap.xml.gz
\* and /sitemaps/sitemap.xml in that order; an alternative location is left
\* out only when it is in the visited set, whatever the earlier steps found,
\* and no URL is probed once it is in the visited set.
DiscoverProbesInOrder ==
  DiscoverAboutToReturn =>
    /\ StartsAtStandardLocation(TopLevelFetches)
    /\ PhasesInOrder(SubSeq(TopLevelFetches, 3, Len(TopLevelFetches)),
                     Top.robotsSitemaps, dVisited)
    /\ \A p \in DOMAIN fetchLog :
         (fetchLog[p].by = "checkSitemap" /\ IsTopLevel(fetchLog[p])) => ~VisitedBefore(p)

\* C33 witness: the probe of /sitemap.xml found a sitemap, robots.txt listed
\* /sitemap.xml and /b.xml, of which /b.xml alone was probed, and the three
\* alternative locations were probed after it, in their order.
DiscoverProbesInOrderWitness ==
  /\ DiscoverAboutToReturn
  /\ fetchLog[1].st = "ok"
  /\ Top.robotsSitemaps = <<"/sitemap.xml", "/b.xml">>
  /\ UrlsOf(SubSeq(TopLevelFetches, 3, Len(TopLevelFetches)))
       = <<"/b.xml">> \o alternativeLocations

\* the first probe that found the document at u
FirstFound(u) ==
  fetchLog[CHOOSE p \in DOMAIN fetchLog :
             /\ fetchLog[p].url = u /\ ByCheckSitemap(fetchLog[p]) /\ fetchLog[p].st = "ok"
             /\ \A q \in 1..(p - 1) :
                  ~(fetchLog[q].url = u /\ ByCheckSitemap(fetchLog[q]) /\ fetchLog[q].st = "ok")]

\* C34: the sitemaps list returned by discover_sitemaps never contains the
\* same URL twice; a URL found more than once is listed once, with the
\* discovered_from tag of the first probe that found it.
SitemapsListedOnce ==
  (op = "discover_sitemaps" /\ Responded /\ response[1].ok) =>
    /\ \A i, j \in DOMAIN response[1].data.sitemaps :
         i # j => response[1].data.sitemaps[i].url # response[1].data.sitemaps[j].url
    /\ \A k \in DOMAIN response[1].data.sitemaps :
         response[1].data.sitemaps[k].discovered_from
           = FirstFound(response[1].data.sitemaps[k].url).from

\* the robots.txt loop is through, and robots.txt named a URL that the
\* standard location had already found, or named a found URL twice
SitemapsListedOnceWitness ==
  /\ op = "discover_sitemaps" /\ Running
  /\ Top.fn = "discoverSitemaps" /\ Top.pc = "robots_loop"
  /\ Top.i > Len(Top.robotsSitemaps)
  /\ \/ \E k \in DOMAIN Top.robotsSitemaps, m \in DOMAIN Top.sitemaps :
          /\ Top.sitemaps[m].url = Top.robotsSitemaps[k]
          /\ Top.sitemaps[m].discovered_from = "standard_location"
     \/ \E k, l \in DOMAIN Top.robotsSitemaps, m \in DOMAIN Top.sitemaps :
          /\ k # l /\ Top.robotsSitemaps[k] = Top.robotsSitemaps[l]
          /\ Top.sitemaps[m].url = Top.robotsSitemaps[k]
          /\ Top.sitemaps[m].discovered_from = "robots_txt"

\* the offset the last response's next_cursor carries
NextOffset == GetProp(decodeCursor(LastNextCursor[1]), OffsetKey)
\* v is the number x + n
IsSum(v, x, n) ==
  /\ v.t = "number" /\ x.t = "number"
  /\ v.num * x.den = (x.num + n * x.den) * v.den

\* C35: list_sitemap_urls uses the page size min(max(1, limit), 1000), 100
\* when limit is absent: total_in_page is between 0 and 1000 and at most that
\* size, and the next cursor is the offset of the call advanced by that size.
PageSizeIsClamped ==
  (lsResp # <<>> /\ lsResp[1].ok) =>
    /\ lsResp[1].data.total_in_page \in 0..1000
    /\ lsResp[1].data.total_in_page <= ClaimedPageSize
    /\ LastNextCursor # <<>> => IsSum(NextOffset, ToNumber(LastOffset), ClaimedPageSize)

\* the last call fetched the document and carried no cursor or a cursor with
\* an offset 0, 1, 2, ...
ListedFromOffset ==
  /\ lsResp # <<>> /\ lsResp[1].ok
  /\ lsArgs[1].fetch.st = "ok" /\ lsArgs[1].fetch.root # "html"
  /\ LastOffset.t = "number" /\ LastOffset.den = 1 /\ LastOffset.num >= 0
\* the page is the slice of `entries` at the offset, with a cursor to the
\* next slice while there is one
PagedOver(entries) ==
  LET o == LastOffset.num
      hi == Min(o + ClaimedPageSize, Len(entries))
  IN /\ lsResp[1].data.urls = IF o < hi THEN SubSeq(entries, o + 1, hi) ELSE <<>>
     /\ (LastNextCursor # <<>>) <=> (o + ClaimedPageSize < Len(entries))
     /\ LastNextCursor # <<>> =>
          decodeCursor(LastNextCursor[1]) = CursorData(o + ClaimedPageSize, {})

Live(sid) ==
  \E k \in DOMAIN transports : transports[k].sessionId = {sid} /\ ~transports[k].closed
Closed(sid) ==
  \E k \in DOMAIN transports : transports[k].sessionId = {sid} /\ transports[k].closed

\* C37: a session id is in the session table exactly from the moment its
\* transport reports the session initialized until that transport closes; no
\* transport/server pair is the value of two session ids; and a request that
\* carries the id of a closed transport is answered 404 "Session not found".
SessionLivesWithItsTransport ==
  /\ [](/\ \A sid \in SessionIds : sid \in sessions <=> Live(sid)
        /\ \A k \in DOMAIN transports : Cardinality(transports[k].keys) <= 1)
  /\ [][\A sid \in SessionIds :
          (Handles("/mcp", {sid}) /\ Closed(sid)) => Answers(404, "Session not found")]_vars

\* C37 witness: two sessions were initialized, the transport of the first has
\* closed, the second is still in the table, and a POST carrying the first
\* id was answered 404.
SessionLivesWithItsTransportWitness ==
  /\ Len(transports) = 2
  /\ transports[1] = Pair({"session-1"}, {}, TRUE)
  /\ transports[2] = Pair({"session-2"}, {"session-2"}, FALSE)
  /\ sessions = {"session-2"}
  /\ req # <<>> /\ req[1].pathname = "/mcp" /\ req[1].method = "POST"
  /\ req[1].sessionId = {"session-1"}
  /\ res # <<>> /\ res[1].status = 404

\* the fetches of the call that have been issued and have not settled
InFlight == {k \in DOMAIN fetchLog : fetchLog[k].st = "pending"}

\* C38: within one discover_sitemaps or build_crawl_frontier call at most one
\* outbound fetch is in flight at any time, and a fetch is issued only after
\* every earlier fetch of the call has completed or failed.
OneFetchInFlight ==
  /\ [](/\ Cardinality(InFlight) <= 1
        /\ \A k \in InFlight : k = Len(fetchLog) /\ pending = <<fetchLog[k].url>>
        /\ pending # <<>> => InFlight # {})
  /\ [][Len(fetchLog') > Len(fetchLog) =>
          /\ InFlight = {} /\ pending = <<>>
          /\ Len(fetchLog') = Len(fetchLog) + 1]_vars

\* C38 witness: a build_crawl_frontier call waits for its fourth fetch or a
\* later one, fetches before it having succeeded and failed.
OneFetchInFlightWitness ==
  /\ op = "build_crawl_frontier" /\ Running
  /\ Len(fetchLog) >= 4 /\ InFlight = {Len(fetchLog)}
  /\ \E j, k \in 1..(Len(fetchLog) - 1) : fetchLog[j].st = "ok" /\ fetchLog[k].st = "failed"
====
